---- MODULE Spec2Model ----
(***************************************************************************)
(* Model of the ingestion pipeline of rag-doc-uploader-parser:             *)
(*   OpenAIService.splitTextIntoChunks      (openai.service.ts)            *)
(*   MediaProcessingService.segmentVideo,                                  *)
(*     extractAudioFromVideo, cleanupFiles  (media-processing.service.ts)  *)
(*   DocumentProcessingService.processFile  (document-processing.service)  *)
(*   ShopifyCsvProcessorService                                            *)
(*     .processShopifyCsv                   (shopify-csv-processor)        *)
(*   PineconeService.initialize,                                           *)
(*     upsertDocument,                                                     *)
(*     queryWithProductPriority             (pinecone.service.ts)          *)
(*   POST /api/upload                       (app/api/upload/route.ts)      *)
(*   MultiFileUploader                      (components/MultiFileUploader) *)
(* Texts are sequences of one-character strings.                           *)
(***************************************************************************)
EXTENDS Integers, Sequences, FiniteSets, TLC

VARIABLES
  splitCall,        \* one call of splitTextIntoChunks: its arguments and result
  run,              \* number of processFile runs started on the file
  attemptsLeft,     \* number of processFile runs still to start
  pc,               \* position of the current processFile run
  file,             \* the upload: filename parts, category, bytes (as text), size
  now,              \* Date.now()
  fs,               \* paths that exist in UPLOAD_DIR
  filesToCleanup,   \* processFile: filesToCleanup
  processingSteps,  \* processFile: processingSteps
  content,          \* processFile: content
  seg,              \* segmentVideo call: arguments, locals, issued cut commands
  segments,         \* processFile: segments returned by segmentVideo
  segI,             \* processFile: index i of the segment loop
  segmentContents,  \* processFile: segmentContents
  document,         \* processFile: document (id, content)
  chunks,           \* processFile: chunks
  batch,            \* processFile: batch loop locals i, j, batchEmbeddings
  inflight,         \* embedding requests outstanding at the provider
  store,            \* the vector index: record id -> record
  cleanup,          \* the cleanupFiles call in progress
  caught,           \* the error that entered processFile's catch block
  outcome,          \* how the current run settled
  hist,             \* observations of the runs (not program state)
  progress,         \* processFile: the percentages passed to onProgress
  route,            \* the POST /api/upload handler: position and response
  pinecone,         \* PineconeService.initialize and the provider's indexes
  jobs,             \* concurrent processFile jobs: position and temp paths
  shopify,          \* processFile, Shopify CSV branch: shopifyProducts and i
  uploader,         \* MultiFileUploader: fileItems, the batch run, its stats
  priority,         \* one call of queryWithProductPriority
  callers           \* concurrent callers of PineconeService.initialize

vars == <<splitCall, run, attemptsLeft, pc, file, now, fs, filesToCleanup, processingSteps,
          content, seg, segments, segI, segmentContents, document, chunks,
          batch, inflight, store, cleanup, caught, outcome, hist, progress,
          route, pinecone, jobs, shopify, uploader, priority, callers>>

clientVars == <<uploader, priority, callers>>

uploadVars == <<route, pinecone, jobs, shopify, clientVars>>

processVars == <<run, attemptsLeft, pc, file, now, fs, filesToCleanup,
                    processingSteps, content, seg, segments, segI,
                    segmentContents, document, chunks, batch, inflight, store,
                    cleanup, caught, outcome, hist, progress>>

pipelineVars == <<run, attemptsLeft, pc, file, now, fs, filesToCleanup, processingSteps,
                  content, seg, segments, segI, segmentContents, document,
                  chunks, batch, inflight, store, cleanup, caught, outcome,
                  hist, progress, route, pinecone, jobs, shopify, clientVars>>

(***************************************************************************)
(* Bounds of the model.                                                    *)
(***************************************************************************)
\* Longest text enumerated as an argument of splitTextIntoChunks.
MaxTextLen == 5

\* The 8000-character ceiling of splitTextIntoChunks (maxChunkSize), scaled
\* down so that texts longer than the ceiling can be enumerated.
maxChunkSize == 3

\* The 8000-character ceiling of createEmbedding(s) (maxLength), scaled down
\* like maxChunkSize.
maxLength == 3

\* Most sentences in an uploaded text (one chunk per sentence at this scale).
MaxSentences == 8

\* Most segments a sampled video duration needs.
MaxSegments == 3

\* Latest reading of Date.now() while two jobs run together.
MaxClock == 2

\* Most file items ever added to the batch uploader.
MaxFileItems == 5

\* Largest topK a query is made with.
MaxTopK == 4

\* Most rows of a Shopify CSV.
MaxProducts == 2

(***************************************************************************)
(* Program constants.                                                      *)
(***************************************************************************)
\* config.pinecone.vectorDimension
vectorDimension == 1024

\* config.upload.maxVideoFileSize
maxVideoFileSize == 1073741824

\* config.upload.maxAudioFileSize
maxAudioFileSize == 209715200

\* waitForIndexReady: maxAttempts
maxAttempts == 20

\* config.processing.chunkSize
configChunkSize == 8000

\* config.processing.chunkOverlap
configChunkOverlap == 200

\* config.upload.maxFileSize
maxFileSize == 104857600

\* processFile: const batchSize = 5
batchSize == 5

\* processFile: segmentVideo(uploadedFilePath, 10)
videoSegmentMinutes == 10

\* upsertDocument: content.substring(0, 1000)
metadataContentLength == 1000

\* MultiFileUploader: maxConcurrentUploads = 3
maxConcurrentUploads == 3

Min(a, b) == IF a < b THEN a ELSE b

(***************************************************************************)
(* JavaScript string primitives, on sequences of characters.               *)
(***************************************************************************)
IsTerminator(c) == c \in {".", "!", "?"}

IsSpace(c) == c \in {" ", "\n", "\t"}

\* First index >= p of s whose character is (want = TRUE) or is not
\* (want = FALSE) a terminator; Len(s) + 1 when there is none.
RECURSIVE ScanTerminator(_, _, _)
ScanTerminator(s, p, want) ==
  IF p > Len(s) THEN Len(s) + 1
  ELSE IF IsTerminator(s[p]) = want THEN p
  ELSE ScanTerminator(s, p + 1, want)

\* text.match(/[^.!?]+[.!?]+/g), scanning from index p: the matches in order.
\* A match is a maximal run of non-terminators followed by a maximal run of
\* terminators; a trailing run without terminator matches nothing.
RECURSIVE MatchFrom(_, _)
MatchFrom(s, p) ==
  LET b == ScanTerminator(s, p, FALSE)
      q == ScanTerminator(s, b, TRUE)
      r == ScanTerminator(s, q, FALSE)
  IN  IF b > Len(s) \/ q > Len(s) THEN <<>>
      ELSE <<SubSeq(s, b, r - 1)>> \o MatchFrom(s, r)

\* text.match(/[^.!?]+[.!?]+/g) || [text]
MatchSentences(text) ==
  LET m == MatchFrom(text, 1) IN IF m = <<>> THEN <<text>> ELSE m

\* s.split(' ')
RECURSIVE SplitFrom(_, _, _)
SplitFrom(s, p, cur) ==
  IF p > Len(s) THEN <<cur>>
  ELSE IF s[p] = " " THEN <<cur>> \o SplitFrom(s, p + 1, <<>>)
  ELSE SplitFrom(s, p + 1, Append(cur, s[p]))

SplitSpace(s) == SplitFrom(s, 1, <<>>)

\* words.join(' ')
RECURSIVE JoinSpace(_)
JoinSpace(words) ==
  IF words = <<>> THEN <<>>
  ELSE IF Len(words) = 1 THEN words[1]
  ELSE words[1] \o <<" ">> \o JoinSpace(Tail(words))

\* words.slice(-k): -0 is 0, so slice(-0) is the whole array.
SliceLast(words, k) ==
  IF k = 0 \/ k >= Len(words) THEN words
  ELSE SubSeq(words, Len(words) - k + 1, Len(words))

RECURSIVE TrimStart(_)
TrimStart(s) ==
  IF s # <<>> /\ IsSpace(s[1]) THEN TrimStart(Tail(s)) ELSE s

RECURSIVE TrimEnd(_)
TrimEnd(s) ==
  IF s # <<>> /\ IsSpace(s[Len(s)]) THEN TrimEnd(SubSeq(s, 1, Len(s) - 1))
  ELSE s

\* s.trim()
Trim(s) == TrimEnd(TrimStart(s))

(***************************************************************************)
(* OpenAIService.splitTextIntoChunks                                       *)
(***************************************************************************)
\* The seed of the next buffer: words.slice(-overlapWords).join(' ') + ' '
OverlapSeed(currentChunk, overlap) ==
  LET words == SplitSpace(currentChunk)
      overlapWords == overlap \div 10
  IN  JoinSpace(SliceLast(words, overlapWords)) \o <<" ">>

\* The for loop over the sentences, from sentence n on; st is the loop state
\* [chunks, currentChunk, currentLength], and st.seeds lists, for every
\* chunk emitted in the loop, the buffer it was emitted from and the seed
\* carried into the next buffer.
RECURSIVE PackSentences(_, _, _, _, _)
PackSentences(sentences, n, st, effectiveChunkSize, overlap) ==
  IF n > Len(sentences) THEN st
  ELSE
    LET sentence == sentences[n]
        emit == /\ st.currentLength + Len(sentence) > effectiveChunkSize
                /\ st.currentChunk # <<>>
        seed == OverlapSeed(st.currentChunk, overlap)
        s1 == IF emit
              THEN [chunks |-> Append(st.chunks, Trim(st.currentChunk)),
                    currentChunk |-> seed,
                    currentLength |-> Len(seed),
                    seeds |-> Append(st.seeds, [emitted |-> st.currentChunk,
                                                seed |-> seed])]
              ELSE st
        s2 == [chunks |-> s1.chunks,
               seeds |-> s1.seeds,
               currentChunk |-> s1.currentChunk \o sentence \o <<" ">>,
               currentLength |-> s1.currentLength + Len(sentence) + 1]
    IN  PackSentences(sentences, n + 1, s2, effectiveChunkSize, overlap)

\* Math.min(chunkSize, maxChunkSize)
EffectiveChunkSize(chunkSize) == Min(chunkSize, maxChunkSize)

FastPathStrict(text, effectiveChunkSize) == Len(text) < effectiveChunkSize

\* if (text.length <= effectiveChunkSize) return [text]
FastPath(text, effectiveChunkSize) == Len(text) <= effectiveChunkSize

splitTextIntoChunks(text, chunkSize, overlap) ==
  LET effectiveChunkSize == EffectiveChunkSize(chunkSize)
  IN  IF FastPath(text, effectiveChunkSize) THEN <<text>>
      ELSE
        LET st == PackSentences(MatchSentences(text), 1,
                     [chunks |-> <<>>, currentChunk |-> <<>>,
                      currentLength |-> 0, seeds |-> <<>>],
                     effectiveChunkSize, overlap)
        IN  IF Trim(st.currentChunk) # <<>>
            THEN Append(st.chunks, Trim(st.currentChunk))
            ELSE st.chunks

\* The seeds the loop of splitTextIntoChunks carried from buffer to buffer.
OverlapSeeds(text, chunkSize, overlap) ==
  LET effectiveChunkSize == EffectiveChunkSize(chunkSize)
  IN  IF FastPath(text, effectiveChunkSize) THEN <<>>
      ELSE PackSentences(MatchSentences(text), 1,
              [chunks |-> <<>>, currentChunk |-> <<>>,
               currentLength |-> 0, seeds |-> <<>>],
              effectiveChunkSize, overlap).seeds

(***************************************************************************)
(* Calls of splitTextIntoChunks on enumerated arguments.                   *)
(***************************************************************************)
Alphabet == {"a", "b", " ", "."}

Texts == UNION {[1..n -> Alphabet] : n \in 0..MaxTextLen}

\* Requested chunk sizes: below, at and above the ceiling.
ChunkSizes == {maxChunkSize - 1, maxChunkSize, maxChunkSize + 2}

\* Overlaps: overlapWords = 0, 1, 2 and 20 (the configured 200).
Overlaps == {0, 10, 20, 200}

NoSplitCall == [text |-> <<>>, chunkSize |-> 0, overlap |-> 0,
                result |-> <<>>, seeds |-> <<>>, state |-> "none"]

SplitReturn ==
  /\ splitCall.state = "called"
  /\ splitCall' = [splitCall EXCEPT
        !.result = splitTextIntoChunks(splitCall.text, splitCall.chunkSize,
                                       splitCall.overlap),
        !.seeds = OverlapSeeds(splitCall.text, splitCall.chunkSize,
                               splitCall.overlap),
        !.state = "returned"]
  /\ UNCHANGED pipelineVars

(***************************************************************************)
(* Paths.  A path is [ts, base, seg, ext]: UPLOAD_DIR/<ts>-<base><seg>.ext *)
(***************************************************************************)
\* saveUploadedFile: path.join(UPLOAD_DIR, `${Date.now()}-${filename}`)
UploadPath(ts, f) == [ts |-> ts, base |-> f.base, seg |-> 0, ext |-> f.ext]

\* segmentVideo: `${baseName}_segment_${i + 1}${extension}`
SegmentPath(videoPath, i) == [videoPath EXCEPT !.seg = i + 1]

\* extractAudioFromVideo: videoPath.replace(/\.[^/.]+$/, '.mp3')
AudioPath(videoPath) == [videoPath EXCEPT !.ext = "mp3"]

(***************************************************************************)
(* The upload and its environment.                                         *)
(***************************************************************************)
\* n sentences "a." in a row.
RECURSIVE Sentences(_)
Sentences(n) == IF n = 0 THEN <<>> ELSE <<"a", ".">> \o Sentences(n - 1)

Blank(n) == [i \in 1..n |-> " "]

\* Bytes of the uploaded text files: from empty to MaxSentences sentences,
\* and a text of blanks longer than the chunk ceiling.
InputTexts == {Sentences(n) : n \in 0..MaxSentences} \cup {Blank(maxChunkSize + 1)}

\* What the transcription service answers for the audio at a path, when it
\* answers a text that is not blank: the speech of that file. Neighbouring
\* segments differ.
TranscriptOf(audioPath) ==
  IF audioPath.seg % 2 = 0 THEN <<"a", ".">> ELSE <<"b", ".">>

\* Durations (seconds) around the multiples of a window of w minutes.
DurationSamples(w) ==
  {d \in {k * w * 60 + e : k \in 0..MaxSegments, e \in {-1, 0, 1}} :
     d >= 0 /\ d <= MaxSegments * w * 60}

\* config.upload.allowedTextFormats, allowedAudioFormats, allowedVideoFormats
allowedTextFormats == {"txt", "md", "pdf", "doc", "docx", "csv", "json"}

allowedAudioFormats == {"mp3", "wav", "m4a", "ogg", "flac"}

allowedVideoFormats == {"mp4", "avi", "mov", "mkv", "webm"}

\* isAudioFile: audioExtensions; isVideoFile: videoExtensions
audioExtensions == {"mp3", "wav", "m4a", "ogg", "flac", "aac", "wma"}

videoExtensions == {"mp4", "avi", "mov", "mkv", "webm", "flv", "wmv"}

\* String.prototype.toLowerCase, on the extensions the uploads carry
ToLowerCase(s) ==
  CASE s = "TXT" -> "txt"
    [] s = "MP3" -> "mp3"
    [] s = "EXE" -> "exe"
    [] s = "Shopify" -> "shopify"
    [] OTHER -> s

\* filename.toLowerCase().includes('shopify') && filename.endsWith('.csv')
IsShopifyCsv(f) == ToLowerCase(f.base) = "shopify" /\ f.ext = "csv"

\* determineFileType, on filename.split('.').pop()
determineFileType(ext) ==
  LET extension == ToLowerCase(ext)
  IN  IF extension \in allowedTextFormats THEN "text"
      ELSE IF extension \in audioExtensions THEN "audio"
      ELSE IF extension \in videoExtensions THEN "video"
      ELSE "unsupported"

\* Parsed PDFs: no page; pages without text elements; elements without
\* runs or with empty runs; one line; two items of one line out of order;
\* two lines out of order.
PdfPages ==
  {<<>>,
   <<[hasTexts |-> FALSE, Texts |-> <<>>]>>,
   <<[hasTexts |-> TRUE, Texts |-> <<>>]>>,
   <<[hasTexts |-> TRUE, Texts |-> <<[x |-> 0, y |-> 100, R |-> <<>>]>>]>>,
   <<[hasTexts |-> TRUE, Texts |-> <<[x |-> 0, y |-> 100, R |-> << <<>> >>]>>]>>,
   <<[hasTexts |-> TRUE, Texts |-> <<>>], [hasTexts |-> TRUE, Texts |-> <<>>]>>,
   <<[hasTexts |-> TRUE,
      Texts |-> <<[x |-> 0, y |-> 100, R |-> << <<"a", ".">> >>]>>]>>,
   <<[hasTexts |-> TRUE,
      Texts |-> <<[x |-> 4, y |-> 104, R |-> << <<"b">>, <<".">> >>],
                  [x |-> 0, y |-> 100, R |-> << <<"a">> >>]>>]>>,
   <<[hasTexts |-> TRUE,
      Texts |-> <<[x |-> 0, y |-> 200, R |-> << <<"b", ".">> >>],
                  [x |-> 0, y |-> 100, R |-> << <<"a", ".">> >>]>>]>>}

PdfFiles ==
  [base : {"f"}, ext : {"pdf"}, bytes : {<<>>}, pages : PdfPages, size : {1},
   duration : {0}]

\* Text, audio and video uploads at or under maxFileSize.
SmallFiles ==
  [base : {"f"}, ext : {"txt"}, bytes : InputTexts, pages : {<<>>}, size : {1}, duration : {0}]
  \cup [base : {"f"}, ext : {"mp3"}, bytes : {<<>>}, pages : {<<>>}, size : {1},
        duration : {1}]
  \cup [base : {"f"}, ext : {"mp4"}, bytes : {<<>>}, pages : {<<>>}, size : {maxFileSize},
        duration : {1}]
  \cup PdfFiles

\* Videos over maxFileSize.
LargeVideos ==
  [base : {"f"}, ext : {"mp4"}, bytes : {<<>>}, pages : {<<>>}, size : {maxFileSize + 1},
   duration : DurationSamples(videoSegmentMinutes)]

Files == SmallFiles \cup LargeVideos

\* Uploads whose name makes processFile take the Shopify CSV branch.
ShopifyFiles ==
  [base : {"shopify", "Shopify"}, ext : {"csv"}, bytes : {<<>>},
   pages : {<<>>}, size : {1}, duration : {0}]

\* uuidv4(): a random draw. The names are interchangeable, so the first
\* run's draw is called u1.
Uuids == {"u1", "u2"}

NoFile == [base |-> "", ext |-> "", bytes |-> <<>>, pages |-> <<>>, size |-> 0,
           duration |-> 0]

NoPath == [ts |-> 0, base |-> "", seg |-> 0, ext |-> ""]

NoSeg == [videoPath |-> NoPath, minutes |-> 0, duration |-> 0,
          numSegments |-> 0, i |-> 0, segmentPaths |-> <<>>, cuts |-> <<>>]

\* segmentVideo is entered: its arguments and its locals.
SegmentCall(videoPath, minutes) ==
  [videoPath |-> videoPath, minutes |-> minutes, duration |-> 0,
   numSegments |-> 0, i |-> 0, segmentPaths |-> <<>>, cuts |-> <<>>]

NoDocument == [id |-> "", filename |-> "", content |-> <<>>, source |-> "",
               originalFormat |-> "", uploadedAt |-> 0,
               processingSteps |-> <<>>, duration |-> 0]

NoBatch == [i |-> 0, j |-> 0, batchChunks |-> <<>>, batchEmbeddings |-> <<>>]

NoCleanup == [paths |-> <<>>, next |-> 1, cont |-> "none"]

NoHist == [attempted |-> {}, extracted |-> <<>>, transcribed |-> <<>>,
           written |-> {}, firstWritten |-> {}, firstContent |-> <<>>,
           firstResolved |-> FALSE, cutFailedAt |-> 0, cause |-> "none"]

NoOutcome == [kind |-> "none", error |-> "", id |-> ""]

\* No request is being handled.
NoResponse == [status |-> 0, success |-> FALSE, message |-> "", error |-> "",
               documentId |-> ""]

NoRoute == [pc |-> "none", body |-> "none", response |-> NoResponse]

\* initialize is not running; the provider lists no index.
NoPinecone == [pc |-> "none", before |-> {}, indexes |-> {}, attempts |-> 0,
               error |-> ""]

NoJobs == <<>>

\* A job that has just entered processFile.
NoJob == [pc |-> "save", file |-> NoFile, filesToCleanup |-> <<>>,
          segmentPaths |-> <<>>, numSegments |-> 0, i |-> 0]

\* The Shopify branch of processFile has not been entered.
NoShopify == [products |-> <<>>, i |-> 0]

\* MultiFileUploader after construction: no file items, no batch run.
NoUploader == [pc |-> "idle", fileItems |-> <<>>, nextId |-> 1,
               closure |-> <<>>, pendingFiles |-> <<>>, i |-> 0,
               requests |-> {}, stats |-> <<>>,
               succeeded |-> {}, failed |-> {}]

\* No call of queryWithProductPriority.
NoPriority == [pc |-> "none", topK |-> 0, prioritizeProducts |-> FALSE,
               records |-> {}, products |-> <<>>, general |-> <<>>,
               result |-> <<>>]

\* No concurrent caller of initialize.
NoCallers == <<>>

\* The browser component and the query side are idle.
ClientIdle ==
  /\ uploader = NoUploader
  /\ priority = NoPriority
  /\ callers = NoCallers

\* Before processFile is called on an upload of uploads; attempts is the
\* number of times processFile will be called on it.
ProcessInit(uploads, attempts) ==
  /\ run = 0
  /\ attemptsLeft = attempts
  /\ pc = "idle"
  /\ file \in uploads
  /\ now = 1
  /\ fs = {}
  /\ filesToCleanup = <<>>
  /\ processingSteps = <<>>
  /\ content = <<>>
  /\ seg = NoSeg
  /\ segments = <<>>
  /\ segI = 0
  /\ segmentContents = <<>>
  /\ document = NoDocument
  /\ chunks = <<>>
  /\ batch = NoBatch
  /\ inflight = {}
  /\ store = <<>>
  /\ cleanup = NoCleanup
  /\ caught = ""
  /\ outcome = NoOutcome
  /\ hist = NoHist
  /\ progress = <<>>
  /\ shopify = NoShopify

\* Before processFile is called directly: no request, no initialize call.
PipelineInit(uploads, attempts) ==
  /\ ProcessInit(uploads, attempts)
  /\ route = NoRoute
  /\ pinecone = NoPinecone
  /\ jobs = NoJobs
  /\ ClientIdle

Init == splitCall = NoSplitCall /\ PipelineInit(Files, 1)

\* The upload is processed, then processed once more.
RetryInit == splitCall = NoSplitCall /\ PipelineInit(SmallFiles, 2)

\* processFile is called on an upload that may be a Shopify CSV.
ShopifyInit ==
  splitCall = NoSplitCall /\ PipelineInit(Files \cup ShopifyFiles, 1)

\* splitTextIntoChunks is called; no upload is processed.
SplitInit ==
  /\ splitCall \in [text : Texts, chunkSize : ChunkSizes, overlap : Overlaps,
                    result : {<<>>}, seeds : {<<>>}, state : {"called"}]
  /\ PipelineInit({NoFile}, 0)

\* config.pinecone.indexName (PINECONE_INDEX_NAME)
indexName == "docs"

\* initialize is entered.
InitializeCall(indexes) ==
  [pc |-> "list", before |-> indexes, indexes |-> indexes, attempts |-> 0,
   error |-> ""]

\* The indexes the provider may hold when initialize is called: at most one
\* per name, of the configured dimension or of another one.
IndexDimensions == {512, vectorDimension, 1536}

IndexSets ==
  {ixs \in SUBSET [name : {indexName, "other"}, dimension : IndexDimensions] :
     \A a, b \in ixs : a.name = b.name => a = b}

\* initialize is called; no upload is processed.
InitializeInit ==
  /\ splitCall = NoSplitCall
  /\ ProcessInit({NoFile}, 0)
  /\ route = NoRoute
  /\ \E ixs \in IndexSets : pinecone = InitializeCall(ixs)
  /\ jobs = NoJobs
  /\ ClientIdle

\* Uploads the route refuses for their extension.
UnsupportedFiles ==
  [base : {"f"}, ext : {"exe", "EXE", "aac", "flv", ""}, bytes : {<<>>},
   pages : {<<>>}, size : {1}, duration : {0}]

\* Uploads one byte over the ceiling of their category.
OversizedFiles ==
  {[base |-> "f", ext |-> "txt", bytes |-> Sentences(1), pages |-> <<>>,
    size |-> maxFileSize + 1, duration |-> 0],
   [base |-> "f", ext |-> "mp3", bytes |-> <<>>, pages |-> <<>>,
    size |-> maxAudioFileSize + 1, duration |-> 1],
   [base |-> "f", ext |-> "mp4", bytes |-> <<>>, pages |-> <<>>,
    size |-> maxVideoFileSize + 1, duration |-> 1]}

\* Uploads at the ceiling of their category, and one with an upper-case
\* extension.
CeilingFiles ==
  {[base |-> "f", ext |-> "txt", bytes |-> Sentences(1), pages |-> <<>>,
    size |-> maxFileSize, duration |-> 0],
   [base |-> "f", ext |-> "mp3", bytes |-> <<>>, pages |-> <<>>,
    size |-> maxAudioFileSize, duration |-> 1],
   [base |-> "f", ext |-> "mp4", bytes |-> <<>>, pages |-> <<>>,
    size |-> maxVideoFileSize, duration |-> 1],
   [base |-> "f", ext |-> "TXT", bytes |-> Sentences(1), pages |-> <<>>,
    size |-> 1, duration |-> 0]}

Uploads == Files \cup UnsupportedFiles \cup OversizedFiles \cup CeilingFiles

\* The indexes the provider holds when a request arrives.
UploadIndexSets ==
  {{}, {[name |-> indexName, dimension |-> vectorDimension]},
   {[name |-> indexName, dimension |-> 1536]}}

\* A request has arrived at POST /api/upload: a form with a file, a form
\* without one, or a body that is no form.
UploadInit ==
  /\ splitCall = NoSplitCall
  /\ \E body \in {"file", "nofile", "malformed"} :
       /\ route = [pc |-> "received", body |-> body, response |-> NoResponse]
       /\ ProcessInit(IF body = "file" THEN Uploads ELSE {NoFile}, 0)
  /\ \E ixs \in UploadIndexSets :
       pinecone = [NoPinecone EXCEPT !.before = ixs, !.indexes = ixs]
  /\ jobs = NoJobs
  /\ ClientIdle

\* Uploads of two jobs in flight together: the same name, names that differ
\* in the extension only, and different names.
ConcurrentFiles ==
  [base : {"f"}, ext : {"txt", "mp3"}, bytes : {<<>>}, pages : {<<>>},
   size : {1}, duration : {1}]
  \cup [base : {"f", "g"}, ext : {"mp4"}, bytes : {<<>>}, pages : {<<>>},
        size : {1, maxFileSize + 1},
        duration : {2 * videoSegmentMinutes * 60}]

\* Two requests have passed the route and called processFile.
ConcurrentInit ==
  /\ splitCall = NoSplitCall
  /\ ProcessInit({NoFile}, 0)
  /\ route = NoRoute
  /\ pinecone = NoPinecone
  /\ jobs \in [1..2 -> {[NoJob EXCEPT !.file = f] : f \in ConcurrentFiles}]
  /\ ClientIdle

\* Windows (minutes) segmentVideo is called with.
SegmentMinutes == {1, 2, videoSegmentMinutes}

\* segmentVideo is called on a saved video, with a window of w minutes.
SegmentInit ==
  /\ splitCall = NoSplitCall
  /\ \E w \in SegmentMinutes :
       /\ file \in [base : {"f"}, ext : {"mp4"}, bytes : {<<>>}, pages : {<<>>},
                     size : {maxFileSize + 1}, duration : DurationSamples(w)]
       /\ seg = SegmentCall(UploadPath(1, file), w)
       /\ fs = {UploadPath(1, file)}
  /\ pc = "seg_probe"
  /\ run = 0
  /\ attemptsLeft = 0
  /\ now = 1
  /\ filesToCleanup = <<>>
  /\ processingSteps = <<>>
  /\ content = <<>>
  /\ segments = <<>>
  /\ segI = 0
  /\ segmentContents = <<>>
  /\ document = NoDocument
  /\ chunks = <<>>
  /\ batch = NoBatch
  /\ inflight = {}
  /\ store = <<>>
  /\ cleanup = NoCleanup
  /\ caught = ""
  /\ outcome = NoOutcome
  /\ hist = NoHist
  /\ progress = <<>>
  /\ shopify = NoShopify
  /\ route = NoRoute
  /\ pinecone = NoPinecone
  /\ jobs = NoJobs
  /\ ClientIdle

(***************************************************************************)
(* onProgress(stage, progress): the percentages, as exact fractions.       *)
(***************************************************************************)
Percent(n) == [num |-> n, den |-> 1]

\* 20 + (i / segments.length) * 20
SegmentPercent(i, n) == [num |-> 20 * n + 20 * i, den |-> n]

\* 60 + (processed / chunks.length) * 30
BatchPercent(processed, total) ==
  [num |-> 60 * total + 30 * processed, den |-> total]

(***************************************************************************)
(* MediaProcessingService.cleanupFiles / cleanupFile                       *)
(***************************************************************************)
\* cleanupFiles(paths) is called: every unlink is issued, in array order.
\* The unlinks are independent, so the model settles them in that order.
BeginCleanup(paths, cont) ==
  /\ cleanup' = [paths |-> paths, next |-> 1, cont |-> cont]
  /\ pc' = "cleanup"

\* The catch block of processFile is entered with error err:
\*   await this.mediaService.cleanupFiles(filesToCleanup); throw error
ThrowBecause(err, cause) ==
  /\ caught' = err
  /\ BeginCleanup(filesToCleanup, "reject")
  /\ hist' = [hist EXCEPT !.attempted = {}, !.cause = cause]

Throw(err) == ThrowBecause(err, "none")

\* Why a command of the media converter fails: the binary is not installed,
\* or the tool runs and reports an error.
Causes == {"binary_absent", "tool_error"}

\* extractAudioFromVideo, catch block: error.message.includes('which ffmpeg')
\* tells the missing binary from the other failures.
ExtractAudioError(cause) ==
  IF cause = "binary_absent"
  THEN "ffmpeg is not installed. Please install it using: sudo apt-get install ffmpeg (Ubuntu/Debian) or brew install ffmpeg (macOS)"
  ELSE "Failed to extract audio from video"

\* segmentVideo, catch block: throw new Error('Failed to segment video')
SegmentVideoError(cause) == "Failed to segment video"

\* What happens after one unlink has settled: the next one is awaited.
AfterUnlinkStop(failed) ==
  IF failed THEN Len(cleanup.paths) + 1 ELSE cleanup.next + 1

AfterUnlink(failed) == cleanup.next + 1

\* cleanupFile(path): fs.unlink succeeds.
CleanupFile ==
  /\ pc = "cleanup"
  /\ cleanup.next <= Len(cleanup.paths)
  /\ cleanup.paths[cleanup.next] \in fs
  /\ fs' = fs \ {cleanup.paths[cleanup.next]}
  /\ cleanup' = [cleanup EXCEPT !.next = AfterUnlink(FALSE)]
  /\ hist' = [hist EXCEPT !.attempted = @ \cup {cleanup.paths[cleanup.next]}]
  /\ UNCHANGED <<uploadVars, progress, splitCall,
                 run, attemptsLeft, pc, file, now, filesToCleanup,
                 processingSteps, content, seg, segments, segI,
                 segmentContents, document, chunks, batch, inflight, store,
                 caught, outcome>>

\* cleanupFile(path): fs.unlink throws (the file is gone, or the call fails);
\* the error is logged and swallowed.
CleanupFileFails ==
  /\ pc = "cleanup"
  /\ cleanup.next <= Len(cleanup.paths)
  /\ cleanup' = [cleanup EXCEPT !.next = AfterUnlink(TRUE)]
  /\ hist' = [hist EXCEPT !.attempted = @ \cup {cleanup.paths[cleanup.next]}]
  /\ UNCHANGED <<uploadVars, progress, splitCall,
                 run, attemptsLeft, pc, file, now, fs, filesToCleanup,
                 processingSteps, content, seg, segments, segI,
                 segmentContents, document, chunks, batch, inflight, store,
                 caught, outcome>>

\* processFile, catch block: cleanupFiles has resolved; throw error
CleanupDoneReject ==
  /\ pc = "cleanup"
  /\ cleanup.next > Len(cleanup.paths)
  /\ cleanup.cont = "reject"
  /\ pc' = "rejected"
  /\ outcome' = [kind |-> "rejected", error |-> caught, id |-> ""]
  /\ cleanup' = NoCleanup
  /\ UNCHANGED <<uploadVars, progress, splitCall,
                 run, attemptsLeft, file, now, fs, filesToCleanup,
                 processingSteps, content, seg, segments, segI,
                 segmentContents, document, chunks, batch, inflight, store,
                 caught, hist>>

\* processFile, end of the try block: cleanupFiles has resolved;
\*   onProgress('complete', 100); return document
CleanupDoneResolve ==
  /\ pc = "cleanup"
  /\ cleanup.next > Len(cleanup.paths)
  /\ cleanup.cont = "resolve"
  /\ pc' = "resolved"
  /\ outcome' = [kind |-> "resolved", error |-> "", id |-> document.id]
  /\ cleanup' = NoCleanup
  /\ UNCHANGED <<uploadVars, splitCall,
                 run, attemptsLeft, file, now, fs, filesToCleanup,
                 processingSteps, content, seg, segments, segI,
                 segmentContents, document, chunks, batch, inflight, store,
                 caught, hist>>
  /\ progress' = Append(progress, Percent(100))

(***************************************************************************)
(* MediaProcessingService.segmentVideo                                     *)
(***************************************************************************)
\* Math.ceil(duration / segmentDurationSeconds), on whole seconds
NumSegmentsFloor(duration, segmentDurationSeconds) ==
  duration \div segmentDurationSeconds

NumSegments(duration, segmentDurationSeconds) ==
  (duration + segmentDurationSeconds - 1) \div segmentDurationSeconds

\* The cut of segment i (0-based): ffmpeg -ss startTime -t duration
CutCommandEndTime(i, segmentDurationSeconds, segmentPath) ==
  [ss |-> i * segmentDurationSeconds, t |-> (i + 1) * segmentDurationSeconds,
   out |-> segmentPath]

CutCommand(i, segmentDurationSeconds, segmentPath) ==
  [ss |-> i * segmentDurationSeconds, t |-> segmentDurationSeconds,
   out |-> segmentPath]

\* const duration = await this.getMediaDuration(videoPath): ffprobe answers
\* the duration, or fails and getMediaDuration returns 0.
SegmentProbe ==
  /\ pc = "seg_probe"
  /\ \E d \in {file.duration, 0} :
       seg' = [seg EXCEPT !.duration = d,
                          !.numSegments = NumSegments(d, seg.minutes * 60)]
  /\ pc' = "seg_cut"
  /\ UNCHANGED <<uploadVars, progress, splitCall,
                 run, attemptsLeft, file, now, fs, filesToCleanup,
                 processingSteps, content, segments, segI, segmentContents,
                 document, chunks, batch, inflight, store, cleanup, caught,
                 outcome, hist>>

\* One iteration of the for loop: ffmpeg writes the segment.
SegmentCut ==
  /\ pc = "seg_cut"
  /\ seg.i < seg.numSegments
  /\ LET segmentPath == SegmentPath(seg.videoPath, seg.i)
     IN  /\ fs' = fs \cup {segmentPath}
         /\ seg' = [seg EXCEPT
               !.segmentPaths = Append(@, segmentPath),
               !.cuts = Append(@, CutCommand(seg.i, seg.minutes * 60,
                                            segmentPath)),
               !.i = @ + 1]
  /\ UNCHANGED <<uploadVars, progress, splitCall,
                 run, attemptsLeft, pc, file, now, filesToCleanup,
                 processingSteps, content, segments, segI, segmentContents,
                 document, chunks, batch, inflight, store, cleanup, caught,
                 outcome, hist>>

\* catch block: await this.cleanupFiles(segmentPaths)
CreatedSegmentsButLast(segmentPaths) ==
  SubSeq(segmentPaths, 1, Len(segmentPaths) - 1)

CreatedSegments(segmentPaths) == segmentPaths

\* One iteration of the for loop: ffmpeg fails; the catch block cleans up
\* the segments created so far.
SegmentCutFails ==
  /\ pc = "seg_cut"
  /\ seg.i < seg.numSegments
  /\ BeginCleanup(CreatedSegments(seg.segmentPaths), "segment")
  /\ \E cause \in Causes :
       hist' = [hist EXCEPT !.attempted = {}, !.cutFailedAt = seg.i + 1,
                            !.cause = cause]
  /\ UNCHANGED <<uploadVars, progress, splitCall,
                 run, attemptsLeft, file, now, fs, filesToCleanup,
                 processingSteps, content, seg, segments, segI,
                 segmentContents, document, chunks, batch, inflight, store,
                 caught, outcome>>

\* return segmentPaths
SegmentReturn ==
  /\ pc = "seg_cut"
  /\ seg.i >= seg.numSegments
  /\ pc' = "seg_returned"
  /\ segments' = seg.segmentPaths
  /\ UNCHANGED <<uploadVars, progress, splitCall,
                 run, attemptsLeft, file, now, fs, filesToCleanup,
                 processingSteps, content, seg, segI, segmentContents,
                 document, chunks, batch, inflight, store, cleanup, caught,
                 outcome, hist>>

\* catch block: cleanupFiles(segmentPaths) has resolved;
\*   throw new Error('Failed to segment video')
CleanupDoneSegment ==
  /\ pc = "cleanup"
  /\ cleanup.next > Len(cleanup.paths)
  /\ cleanup.cont = "segment"
  /\ pc' = "seg_threw"
  /\ cleanup' = NoCleanup
  /\ UNCHANGED <<uploadVars, progress, splitCall,
                 run, attemptsLeft, file, now, fs, filesToCleanup,
                 processingSteps, content, seg, segments, segI,
                 segmentContents, document, chunks, batch, inflight, store,
                 caught, outcome, hist>>

(***************************************************************************)
(* DocumentProcessingService.processFile: conversion and extraction        *)
(***************************************************************************)
\* The decimal digits of n, as characters.
RECURSIVE Digits(_)
Digits(n) ==
  IF n < 10 THEN <<ToString(n)>>
  ELSE Digits(n \div 10) \o <<ToString(n % 10)>>

(***************************************************************************)
(* DocumentProcessingService.processTextFile: the PDF branch.              *)
(* A parsed PDF is a sequence of pages [hasTexts, Texts]; an element of    *)
(* Texts is [x, y, R]: x in halves, y in hundredths, R the decoded texts   *)
(* of its runs.                                                            *)
(***************************************************************************)
\* text.R.forEach(r => { if (r.T) combinedText += decodeURIComponent(r.T) })
RECURSIVE CombinedText(_)
CombinedText(R) == IF R = <<>> THEN <<>> ELSE R[1] \o CombinedText(Tail(R))

\* Math.round(text.y * 10) / 10, in tenths
YPos(y) == (y + 5) \div 10

\* The keys of textsByLine: the lines of the elements that have runs.
LineKeys(elements) ==
  {YPos(elements[k].y) : k \in {n \in 1..Len(elements) : elements[n].R # <<>>}}

\* Array.from(textsByLine.entries()).sort((a, b) => a[0] - b[0]): the keys
RECURSIVE SortedKeys(_)
SortedKeys(keys) ==
  IF keys = {} THEN <<>>
  ELSE LET least == CHOOSE k \in keys : \A other \in keys : k <= other
       IN  <<least>> \o SortedKeys(keys \ {least})

\* textsByLine.get(yPos): the elements of the line with a text, in the
\* order of page.Texts
RECURSIVE LineItems(_, _)
LineItems(elements, yPos) ==
  IF elements = <<>> THEN <<>>
  ELSE LET t == elements[1]
           rest == LineItems(Tail(elements), yPos)
       IN  IF t.R # <<>> /\ YPos(t.y) = yPos /\ CombinedText(t.R) # <<>>
           THEN <<[x |-> t.x, text |-> CombinedText(t.R)]>> \o rest
           ELSE rest

\* texts.sort((a, b) => a.x - b.x): a stable sort
RECURSIVE InsertByX(_, _)
InsertByX(item, sorted) ==
  IF sorted = <<>> THEN <<item>>
  ELSE IF item.x < sorted[1].x THEN <<item>> \o sorted
  ELSE <<sorted[1]>> \o InsertByX(item, Tail(sorted))

RECURSIVE SortByX(_, _)
SortByX(items, sorted) ==
  IF items = <<>> THEN sorted
  ELSE SortByX(Tail(items), InsertByX(items[1], sorted))

\* texts.forEach: a blank is added on a gap over 0.5, or when the line does
\* not end with a blank and the item is longer than one character;
\* lastX = textItem.x + textItem.text.length * 0.5 (-1 before the first)
RECURSIVE LineText(_, _, _)
LineText(items, lineText, lastX) ==
  IF items = <<>> THEN lineText
  ELSE LET item == items[1]
           endsWithSpace == lineText # <<>> /\ lineText[Len(lineText)] = " "
           space == /\ lastX # -2
                    /\ \/ item.x - lastX > 1
                       \/ ~endsWithSpace /\ Len(item.text) > 1
           spaced == IF space THEN lineText \o <<" ">> ELSE lineText
       IN  LineText(Tail(items), spaced \o item.text, item.x + Len(item.text))

\* sortedLines.forEach: extractedText += lineText.trim() + '\n'
RECURSIVE LinesText(_, _)
LinesText(elements, keys) ==
  IF keys = <<>> THEN <<>>
  ELSE Trim(LineText(SortByX(LineItems(elements, keys[1]), <<>>), <<>>, -2))
         \o <<"\n">> \o LinesText(elements, Tail(keys))

\* One page: `\n--- Page ${pageIndex + 1} ---\n`, its lines, '\n'
PageText(page, pageIndex) ==
  <<"\n", "-", "-", "-", " ", "P", "a", "g", "e", " ">>
    \o Digits(pageIndex + 1) \o <<" ", "-", "-", "-", "\n">>
    \o (IF page.hasTexts
        THEN LinesText(page.Texts, SortedKeys(LineKeys(page.Texts)))
        ELSE <<>>)
    \o <<"\n">>

\* pages.forEach: the extracted text of the PDF
RECURSIVE ExtractedText(_, _)
ExtractedText(pages, pageIndex) ==
  IF pageIndex >= Len(pages) THEN <<>>
  ELSE PageText(pages[pageIndex + 1], pageIndex)
         \o ExtractedText(pages, pageIndex + 1)

\* filename
Filename(f) == f.base \o "." \o f.ext

\* `[Segment ${i + 1}/${segments.length}]\n${segmentContent}`, i 0-based
SegmentPieceZeroBased(i, n, segmentContent) ==
  <<"[", "S", "e", "g", "m", "e", "n", "t", " ">> \o Digits(i) \o <<"/">>
    \o Digits(n) \o <<"]", "\n">> \o segmentContent

SegmentPiece(i, n, segmentContent) ==
  <<"[", "S", "e", "g", "m", "e", "n", "t", " ">> \o Digits(i + 1) \o <<"/">>
    \o Digits(n) \o <<"]", "\n">> \o segmentContent

\* segmentContents.join('\n\n')
RECURSIVE JoinParagraphs(_)
JoinParagraphs(pieces) ==
  IF pieces = <<>> THEN <<>>
  ELSE IF Len(pieces) = 1 THEN pieces[1]
  ELSE pieces[1] \o <<"\n", "\n">> \o JoinParagraphs(Tail(pieces))

\* processFile is called on the file: determineFileType, onProgress, and
\* the call of saveUploadedFile.
StartRun ==
  /\ pc \in {"idle", "resolved", "rejected"}
  /\ attemptsLeft > 0
  /\ determineFileType(file.ext) # "unsupported"
  /\ run' = run + 1
  /\ attemptsLeft' = attemptsLeft - 1
  /\ now' \in (IF run = 0 THEN {now} ELSE {now, now + 1})
  /\ pc' = IF IsShopifyCsv(file) THEN "shopify" ELSE "save"
  /\ shopify' = NoShopify
  /\ filesToCleanup' = <<>>
  /\ processingSteps' = <<>>
  /\ content' = <<>>
  /\ seg' = NoSeg
  /\ segments' = <<>>
  /\ segI' = 0
  /\ segmentContents' = <<>>
  /\ document' = NoDocument
  /\ chunks' = <<>>
  /\ batch' = NoBatch
  /\ caught' = ""
  /\ outcome' = NoOutcome
  /\ hist' = [hist EXCEPT !.attempted = {}, !.extracted = <<>>,
                          !.transcribed = <<>>, !.written = {},
                          !.firstWritten = hist.written,
                          !.firstContent = content,
                          !.firstResolved = (pc = "resolved"),
                          !.cutFailedAt = 0,
                          !.cause = "none"]
  /\ UNCHANGED <<route, pinecone, jobs, clientVars, splitCall, file, fs,
                 inflight, store, cleanup>>
  /\ progress' = <<Percent(10)>>

\* The upload is written, but its path is not registered for cleanup.
SaveUploadedFileUnregistered ==
  /\ pc = "save"
  /\ fs' = fs \cup {UploadPath(now, file)}
  /\ pc' = determineFileType(file.ext)
  /\ UNCHANGED <<uploadVars, splitCall,
                 run, attemptsLeft, file, now, filesToCleanup,
                 processingSteps, content, seg,
                 segments, segI, segmentContents, document, chunks, batch,
                 inflight, store, cleanup, caught, outcome, hist, progress>>

\* saveUploadedFile writes the file; filesToCleanup.push(uploadedFilePath);
\* the switch on the file type is entered.
SaveUploadedFile ==
  /\ pc = "save"
  /\ fs' = fs \cup {UploadPath(now, file)}
  /\ filesToCleanup' = Append(filesToCleanup, UploadPath(now, file))
  /\ pc' = determineFileType(file.ext)
  /\ UNCHANGED <<uploadVars, splitCall,
                 run, attemptsLeft, file, now, processingSteps, content, seg,
                 segments, segI, segmentContents, document, chunks, batch,
                 inflight, store, cleanup, caught, outcome, hist>>
  /\ progress' =
       IF determineFileType(file.ext) = "audio"
       THEN Append(progress, Percent(30))
       ELSE IF determineFileType(file.ext) = "video"
       THEN Append(progress, Percent(20))
       ELSE progress

\* saveUploadedFile: fs.writeFile throws.
SaveUploadedFileFails ==
  /\ pc = "save"
  /\ Throw("writeFile failed")
  /\ UNCHANGED <<uploadVars, progress, splitCall,
                 run, attemptsLeft, file, now, fs, filesToCleanup,
                 processingSteps, content, seg, segments, segI,
                 segmentContents, document, chunks, batch, inflight, store,
                 outcome>>

\* case 'text': processTextFile returns the text (of a PDF: the extracted
\* text, when it is not blank; otherwise buffer.toString('utf-8'))
ProcessTextFile ==
  /\ pc = "text"
  /\ LET text == IF ToLowerCase(file.ext) = "pdf"
                 THEN ExtractedText(file.pages, 0)
                 ELSE file.bytes
     IN  /\ ToLowerCase(file.ext) = "pdf" => Trim(text) # <<>>
         /\ content' = text
  /\ processingSteps' = Append(processingSteps, "text_extraction")
  /\ pc' = "document"
  /\ UNCHANGED <<uploadVars, progress, splitCall,
                 run, attemptsLeft, file, now, fs, filesToCleanup, seg, segments,
                 segI, segmentContents, document, chunks, batch, inflight,
                 store, cleanup, caught, outcome, hist>>

\* processTextFile throws on a PDF: the parser reports an error, or the
\* extracted text is blank; either way the catch block of the PDF branch
\* throws 'Failed to extract text from PDF: <filename>'.
ProcessTextFileFails ==
  /\ pc = "text"
  /\ ToLowerCase(file.ext) = "pdf"
  /\ Throw("Failed to extract text from PDF: " \o Filename(file))
  /\ UNCHANGED <<uploadVars, progress, splitCall,
                 run, attemptsLeft, file, now, fs, filesToCleanup,
                 processingSteps, content, seg, segments, segI,
                 segmentContents, document, chunks, batch, inflight, store,
                 outcome>>

\* case 'video': getFileSize (0 when fs.stat fails) and the segmentation
\* decision; segmentVideo is called when the video is over maxFileSize.
GetFileSize ==
  /\ pc = "video"
  /\ \E videoSize \in {file.size, 0} :
       IF videoSize > maxFileSize
       THEN /\ processingSteps' = Append(processingSteps, "video_segmentation")
            /\ seg' = SegmentCall(filesToCleanup[1], videoSegmentMinutes)
            /\ pc' = "seg_probe"
       ELSE /\ pc' = "extract"
            /\ UNCHANGED <<processingSteps, seg>>
  /\ UNCHANGED <<uploadVars, progress, splitCall,
                 run, attemptsLeft, file, now, fs, filesToCleanup, content,
                 segments, segI, segmentContents, document, chunks, batch,
                 inflight, store, cleanup, caught, outcome, hist>>

\* filesToCleanup.push(...segments); the segment loop is entered.
RegisterSegments ==
  /\ pc = "seg_returned"
  /\ filesToCleanup' = filesToCleanup \o segments
  /\ segI' = 0
  /\ pc' = "seg_loop"
  /\ UNCHANGED <<uploadVars, progress, splitCall,
                 run, attemptsLeft, file, now, fs, processingSteps, content, seg,
                 segments, segmentContents, document, chunks, batch, inflight,
                 store, cleanup, caught, outcome, hist>>

\* segmentVideo threw: the catch block of processFile is entered.
CatchSegmentError ==
  /\ pc = "seg_threw"
  /\ ThrowBecause(SegmentVideoError(hist.cause), hist.cause)
  /\ UNCHANGED <<uploadVars, progress, splitCall,
                 run, attemptsLeft, file, now, fs, filesToCleanup,
                 processingSteps, content, seg, segments, segI,
                 segmentContents, document, chunks, batch, inflight, store,
                 outcome>>

\* The video whose audio is extracted at this position.
ExtractSource == IF pc = "seg_loop" THEN segments[segI + 1] ELSE filesToCleanup[1]

\* extractAudioFromVideo succeeds; filesToCleanup.push(audioPath)
ExtractAudio ==
  /\ \/ pc = "extract"
     \/ pc = "seg_loop" /\ segI < Len(segments)
  /\ fs' = fs \cup {AudioPath(ExtractSource)}
  /\ filesToCleanup' = Append(filesToCleanup, AudioPath(ExtractSource))
  /\ IF pc = "seg_loop"
     THEN /\ pc' = "seg_audio"
          /\ hist' = [hist EXCEPT !.extracted = Append(@, segI + 1)]
          /\ UNCHANGED processingSteps
     ELSE /\ pc' = "video_audio"
          /\ processingSteps' = Append(processingSteps, "video_to_audio")
          /\ UNCHANGED hist
  /\ UNCHANGED <<uploadVars, splitCall,
                 run, attemptsLeft, file, now, content, seg, segments, segI,
                 segmentContents, document, chunks, batch, inflight, store,
                 cleanup, caught, outcome>>
  /\ progress' =
       IF pc = "seg_loop"
       THEN Append(progress, SegmentPercent(segI, Len(segments)))
       ELSE Append(progress, Percent(40))

\* extractAudioFromVideo throws: ffmpeg is missing, or ffmpeg or fs.access
\* fails.
ExtractAudioFails ==
  /\ \/ pc = "extract"
     \/ pc = "seg_loop" /\ segI < Len(segments)
  /\ \E cause \in Causes : ThrowBecause(ExtractAudioError(cause), cause)
  /\ UNCHANGED <<uploadVars, splitCall,
                 run, attemptsLeft, file, now, fs, filesToCleanup,
                 processingSteps, content, seg, segments, segI,
                 segmentContents, document, chunks, batch, inflight, store,
                 outcome>>
  /\ progress' =
       IF pc = "seg_loop"
       THEN Append(progress, SegmentPercent(segI, Len(segments)))
       ELSE progress

\* processAudioFile returns a transcription that is not blank.
ProcessAudioFile ==
  /\ pc \in {"audio", "video_audio", "seg_audio"}
  /\ LET transcription == TranscriptOf(filesToCleanup[Len(filesToCleanup)])
     IN
       /\ Trim(transcription) # <<>>
       /\ IF pc = "seg_audio"
          THEN /\ segmentContents' = Append(segmentContents,
                     SegmentPiece(segI, Len(segments), transcription))
               /\ segI' = segI + 1
               /\ pc' = "seg_loop"
               /\ hist' = [hist EXCEPT !.transcribed = Append(@, segI + 1)]
               /\ UNCHANGED <<content, processingSteps>>
          ELSE /\ content' = transcription
               /\ processingSteps' = Append(processingSteps,
                                            "audio_transcription")
               /\ pc' = "document"
               /\ UNCHANGED <<segmentContents, segI, hist>>
  /\ UNCHANGED <<uploadVars, progress, splitCall,
                 run, attemptsLeft, file, now, fs, filesToCleanup, seg, segments,
                 document, chunks, batch, inflight, store, cleanup, caught,
                 outcome>>

\* processAudioFile throws: transcribeAudio failed or answered a blank text.
ProcessAudioFileFails ==
  /\ pc \in {"audio", "video_audio", "seg_audio"}
  /\ Throw("Failed to transcribe audio file")
  /\ UNCHANGED <<uploadVars, progress, splitCall,
                 run, attemptsLeft, file, now, fs, filesToCleanup,
                 processingSteps, content, seg, segments, segI,
                 segmentContents, document, chunks, batch, inflight, store,
                 outcome>>

\* The segment loop is over: content = segmentContents.join('\n\n')
JoinSegments ==
  /\ pc = "seg_loop"
  /\ segI >= Len(segments)
  /\ content' = JoinParagraphs(segmentContents)
  /\ processingSteps' = Append(processingSteps,
        "processed_" \o ToString(Len(segments)) \o "_segments")
  /\ pc' = "document"
  /\ UNCHANGED <<uploadVars, progress, splitCall,
                 run, attemptsLeft, file, now, fs, filesToCleanup, seg, segments,
                 segI, segmentContents, document, chunks, batch, inflight,
                 store, cleanup, caught, outcome, hist>>

(***************************************************************************)
(* DocumentProcessingService.processFile: document, embedding, storing     *)
(***************************************************************************)
\* A cut to maxLength that appends no marker.
TruncateNoMarker(text) == SubSeq(text, 1, Min(Len(text), maxLength))

\* createEmbedding(s): a text over maxLength is cut to maxLength + '...'
TruncateForEmbedding(text) ==
  IF Len(text) > maxLength
  THEN SubSeq(text, 1, maxLength) \o <<".", ".", ".">>
  ELSE text

\* s.substring(0, n)
Substring0(s, n) == SubSeq(s, 1, Min(Len(s), n))

\* upsertDocument: the record written under document.id
StoreRecord(doc, embedding) ==
  [values |-> embedding,
   filename |-> doc.filename,
   content |-> Substring0(doc.content, metadataContentLength),
   source |-> doc.source,
   originalFormat |-> doc.originalFormat,
   uploadedAt |-> doc.uploadedAt]

\* index.upsert: the record at id is written or replaced.
Upsert(index, id, rec) ==
  [k \in (DOMAIN index) \cup {id} |-> IF k = id THEN rec ELSE index[k]]

\* `${document.id}-chunk-${chunkIndex}`
ChunkIdNoDocument(documentId, chunkIndex) ==
  "chunk-" \o ToString(chunkIndex)

ChunkId(documentId, chunkIndex) ==
  documentId \o "-chunk-" \o ToString(chunkIndex)

\* `chunk_${chunkIndex + 1}_of_${chunks.length}`
ChunkStep(chunkIndex, n) ==
  "chunk_" \o ToString(chunkIndex + 1) \o "_of_" \o ToString(n)

\* const chunkIndex = i + j
ChunkIndexOffByOne(i, j) == i + j + 1

ChunkIndex(i, j) == i + j

\* chunks.slice(i, Math.min(i + batchSize, chunks.length))
BatchChunksUnbounded(all, i) == SubSeq(all, i + 1, Len(all))

BatchChunks(all, i) == SubSeq(all, i + 1, Min(i + batchSize, Len(all)))

\* onProgress('embedding', 60); getMediaDuration for audio and video (0 when
\* ffprobe fails); the document with its uuidv4() id; splitTextIntoChunks
\* with the configured chunk size and overlap.
BuildDocument ==
  /\ pc = "document"
  /\ \E id \in (IF run = 1 THEN {"u1"} ELSE Uuids) :
     \E duration \in (IF determineFileType(file.ext) = "text" THEN {-1}
                      ELSE {file.duration, 0}) :
       document' = [id |-> id,
                    filename |-> file.base \o "." \o file.ext,
                    content |-> content,
                    source |-> determineFileType(file.ext),
                    originalFormat |-> file.ext,
                    uploadedAt |-> now,
                    processingSteps |-> processingSteps,
                    duration |-> duration]
  /\ chunks' = splitTextIntoChunks(content, configChunkSize,
                                   configChunkOverlap)
  /\ batch' = NoBatch
  /\ pc' = "embed"
  /\ UNCHANGED <<uploadVars, splitCall,
                 run, attemptsLeft, file, now, fs, filesToCleanup,
                 processingSteps, content, seg, segments, segI,
                 segmentContents, inflight, store, cleanup, caught, outcome,
                 hist>>
  /\ progress' = progress \o <<Percent(60), Percent(80)>>

\* chunks.length === 1: createEmbedding(content) sends its request.
EmbedIssue ==
  /\ pc = "embed"
  /\ Len(chunks) = 1
  /\ inflight' = inflight \cup
        {[batch |-> 0, texts |-> <<TruncateForEmbedding(content)>>]}
  /\ pc' = "embed_wait"
  /\ UNCHANGED <<uploadVars, progress, splitCall,
                 run, attemptsLeft, file, now, fs, filesToCleanup,
                 processingSteps, content, seg, segments, segI,
                 segmentContents, document, chunks, batch, store, cleanup,
                 caught, outcome, hist>>

\* The else branch: createEmbeddings(batchChunks) sends the request of the
\* batch that starts at chunk i.
BatchIssue ==
  /\ pc = "embed"
  /\ Len(chunks) # 1
  /\ batch.i < Len(chunks)
  /\ LET batchChunks == BatchChunks(chunks, batch.i)
     IN  /\ batch' = [batch EXCEPT !.j = 0, !.batchChunks = batchChunks,
                                   !.batchEmbeddings = <<>>]
         /\ inflight' = inflight \cup
               {[batch |-> batch.i,
                 texts |-> [k \in 1..Len(batchChunks) |->
                              TruncateForEmbedding(batchChunks[k])]]}
  /\ pc' = "embed_wait"
  /\ UNCHANGED <<uploadVars, progress, splitCall,
                 run, attemptsLeft, file, now, fs, filesToCleanup,
                 processingSteps, content, seg, segments, segI,
                 segmentContents, document, chunks, store, cleanup, caught,
                 outcome, hist>>

\* The embedding request is answered: one vector per text, in order (a
\* vector is modelled by the text it embeds).
EmbedDone ==
  /\ pc = "embed_wait"
  /\ \E call \in inflight :
       /\ inflight' = inflight \ {call}
       /\ batch' = [batch EXCEPT !.batchEmbeddings = call.texts]
  /\ pc' = IF Len(chunks) = 1 THEN "upsert" ELSE "batch_store"
  /\ UNCHANGED <<uploadVars, progress, splitCall,
                 run, attemptsLeft, file, now, fs, filesToCleanup,
                 processingSteps, content, seg, segments, segI,
                 segmentContents, document, chunks, store, cleanup, caught,
                 outcome, hist>>

\* The embedding request fails: createEmbedding(s) throws.
EmbedFails ==
  /\ pc = "embed_wait"
  /\ \E call \in inflight : inflight' = inflight \ {call}
  /\ Throw(IF Len(chunks) = 1 THEN "Failed to create embedding"
           ELSE "Failed to create embeddings")
  /\ UNCHANGED <<uploadVars, progress, splitCall,
                 run, attemptsLeft, file, now, fs, filesToCleanup,
                 processingSteps, content, seg, segments, segI,
                 segmentContents, document, chunks, batch, store, outcome>>

\* Single chunk: upsertDocument(document, embedding); onProgress('storing');
\* cleanupFiles(filesToCleanup) is called.
UpsertDocument ==
  /\ pc = "upsert"
  /\ store' = Upsert(store, document.id,
                     StoreRecord(document, batch.batchEmbeddings[1]))
  /\ hist' = [hist EXCEPT !.written = @ \cup {document.id},
                          !.attempted = {}]
  /\ BeginCleanup(filesToCleanup, "resolve")
  /\ UNCHANGED <<uploadVars, splitCall,
                 run, attemptsLeft, file, now, fs, filesToCleanup,
                 processingSteps, content, seg, segments, segI,
                 segmentContents, document, chunks, batch, inflight, caught,
                 outcome>>
  /\ progress' = Append(progress, Percent(95))

\* Batch: upsertDocument(chunkDocument, batchEmbeddings[j]); after the last
\* chunk of the batch, i += batchSize.
UpsertChunk ==
  /\ pc = "batch_store"
  /\ batch.j < Len(batch.batchChunks)
  /\ LET chunkIndex == ChunkIndex(batch.i, batch.j)
         chunkDocument == [document EXCEPT
                             !.id = ChunkId(document.id, chunkIndex),
                             !.content = batch.batchChunks[batch.j + 1],
                             !.processingSteps =
                                Append(processingSteps,
                                       ChunkStep(chunkIndex, Len(chunks)))]
     IN  /\ store' = Upsert(store, chunkDocument.id,
               StoreRecord(chunkDocument, batch.batchEmbeddings[batch.j + 1]))
         /\ hist' = [hist EXCEPT !.written = @ \cup {chunkDocument.id}]
  /\ IF batch.j + 1 < Len(batch.batchChunks)
     THEN /\ batch' = [batch EXCEPT !.j = @ + 1]
          /\ pc' = "batch_store"
     ELSE /\ batch' = [batch EXCEPT !.j = @ + 1, !.i = @ + batchSize]
          /\ pc' = "embed"
  /\ UNCHANGED <<uploadVars, splitCall,
                 run, attemptsLeft, file, now, fs, filesToCleanup,
                 processingSteps, content, seg, segments, segI,
                 segmentContents, document, chunks, inflight, cleanup, caught,
                 outcome>>
  /\ progress' =
       IF batch.j + 1 < Len(batch.batchChunks) THEN progress
       ELSE Append(progress,
              BatchPercent(Min(batch.i + batchSize, Len(chunks)),
                           Len(chunks)))

\* upsertDocument throws.
UpsertFails ==
  /\ \/ pc = "upsert"
     \/ pc = "batch_store" /\ batch.j < Len(batch.batchChunks)
  /\ Throw("upsert failed")
  /\ UNCHANGED <<uploadVars, progress, splitCall,
                 run, attemptsLeft, file, now, fs, filesToCleanup,
                 processingSteps, content, seg, segments, segI,
                 segmentContents, document, chunks, batch, inflight, store,
                 outcome>>

\* The batch loop is over (or chunks is empty): onProgress('storing');
\* cleanupFiles(filesToCleanup) is called.
BatchLoopExit ==
  /\ pc = "embed"
  /\ Len(chunks) # 1
  /\ batch.i >= Len(chunks)
  /\ BeginCleanup(filesToCleanup, "resolve")
  /\ hist' = [hist EXCEPT !.attempted = {}]
  /\ UNCHANGED <<uploadVars, splitCall,
                 run, attemptsLeft, file, now, fs, filesToCleanup,
                 processingSteps, content, seg, segments, segI,
                 segmentContents, document, chunks, batch, inflight, store,
                 caught, outcome>>
  /\ progress' = Append(progress, Percent(95))

(***************************************************************************)
(* DocumentProcessingService.processFile: the Shopify CSV branch, and      *)
(* ShopifyCsvProcessorService.processShopifyCsv.                           *)
(* A CSV row is [handle, status]; the rows of the upload are chosen when   *)
(* the file is parsed.                                                     *)
(***************************************************************************)
\* The rows a Shopify CSV may hold.
ShopifyRows == [handle : {"h1", ""}, status : {"active", "draft"}]

ShopifyCsvs ==
  UNION {[1..n -> ShopifyRows] : n \in 0..MaxProducts}

\* `shopify-${product.handle || uuidv4()}`: the uuid drawn for row k is
\* fresh.
ProductId(row, k) ==
  "shopify-" \o (IF row.handle # "" THEN row.handle ELSE "v" \o ToString(k))

\* processShopifyCsv: rows whose status is not 'active' are skipped; every
\* other row becomes a document.
RECURSIVE ProcessRows(_, _, _, _)
ProcessRows(rows, k, filename, uploadedAt) ==
  IF k > Len(rows) THEN <<>>
  ELSE (IF rows[k].status # "" /\ rows[k].status # "active" THEN <<>>
        ELSE <<[id |-> ProductId(rows[k], k),
                filename |-> filename,
                content |-> <<"P">>,
                source |-> "shopify",
                originalFormat |-> "csv",
                uploadedAt |-> uploadedAt,
                processingSteps |-> <<>>,
                duration |-> -1]>>)
       \o ProcessRows(rows, k + 1, filename, uploadedAt)

processShopifyCsv(rows, filename, uploadedAt) ==
  ProcessRows(rows, 1, filename, uploadedAt)

\* onProgress('embedding', 50 + (i / shopifyProducts.length) * 40)
ShopifyPercent(i, n) == [num |-> 50 * n + 40 * i, den |-> n]

\* onProgress('processing_shopify_csv', 20); processShopifyCsv returns the
\* products; onProgress('embedding', 50).
ShopifyParse ==
  /\ pc = "shopify"
  /\ \E rows \in ShopifyCsvs :
       shopify' = [products |-> processShopifyCsv(rows, Filename(file), now),
                   i |-> 0]
  /\ pc' = "shopify_loop"
  /\ progress' = progress \o <<Percent(20), Percent(50)>>
  /\ UNCHANGED <<route, pinecone, jobs, clientVars, splitCall,
                 run, attemptsLeft, file, now, fs, filesToCleanup,
                 processingSteps, content, seg, segments, segI,
                 segmentContents, document, chunks, batch, inflight, store,
                 cleanup, caught, outcome, hist>>

\* processShopifyCsv throws.
ShopifyParseFails ==
  /\ pc = "shopify"
  /\ Throw("Failed to process Shopify CSV file")
  /\ progress' = Append(progress, Percent(20))
  /\ UNCHANGED <<uploadVars, splitCall,
                 run, attemptsLeft, file, now, fs, filesToCleanup,
                 processingSteps, content, seg, segments, segI,
                 segmentContents, document, chunks, batch, inflight, store,
                 outcome>>

\* One pass of the product loop: createEmbedding(product.content),
\* upsertDocument(product, embedding), onProgress.
ShopifyProduct ==
  /\ pc = "shopify_loop"
  /\ shopify.i < Len(shopify.products)
  /\ LET product == shopify.products[shopify.i + 1]
     IN  /\ store' = Upsert(store, product.id,
                            StoreRecord(product,
                                        TruncateForEmbedding(product.content)))
         /\ hist' = [hist EXCEPT !.written = @ \cup {product.id}]
  /\ shopify' = [shopify EXCEPT !.i = @ + 1]
  /\ progress' = Append(progress,
                        ShopifyPercent(shopify.i, Len(shopify.products)))
  /\ UNCHANGED <<route, pinecone, jobs, clientVars, splitCall,
                 run, attemptsLeft, pc, file, now, fs, filesToCleanup,
                 processingSteps, content, seg, segments, segI,
                 segmentContents, document, chunks, batch, inflight,
                 cleanup, caught, outcome>>

\* createEmbedding or upsertDocument throws for a product.
ShopifyProductFails ==
  /\ pc = "shopify_loop"
  /\ shopify.i < Len(shopify.products)
  /\ \E err \in {"Failed to create embedding", "upsert failed"} : Throw(err)
  /\ UNCHANGED <<uploadVars, progress, splitCall,
                 run, attemptsLeft, file, now, fs, filesToCleanup,
                 processingSteps, content, seg, segments, segI,
                 segmentContents, document, chunks, batch, inflight, store,
                 outcome>>

\* The loop is over: onProgress('complete', 100); the summary document is
\* returned, under a fresh id.
ShopifyReturn ==
  /\ pc = "shopify_loop"
  /\ shopify.i >= Len(shopify.products)
  /\ document' = [id |-> "shopify-batch-" \o "u1",
                  filename |-> Filename(file),
                  content |-> <<"S">>,
                  source |-> "shopify",
                  originalFormat |-> "csv",
                  uploadedAt |-> now,
                  processingSteps |-> <<"shopify_csv_import",
                     "processed_" \o ToString(Len(shopify.products))
                        \o "_products">>,
                  duration |-> -1]
  /\ pc' = "resolved"
  /\ outcome' = [kind |-> "resolved", error |-> "",
                 id |-> "shopify-batch-" \o "u1"]
  /\ progress' = Append(progress, Percent(100))
  /\ UNCHANGED <<uploadVars, splitCall,
                 run, attemptsLeft, file, now, fs, filesToCleanup,
                 processingSteps, content, seg, segments, segI,
                 segmentContents, chunks, batch, inflight, store,
                 cleanup, caught, hist>>

(***************************************************************************)
(* PineconeService.initialize / waitForIndexReady                          *)
(***************************************************************************)
\* indexes.indexes?.some((index) => index.name === this.indexName)
IndexExists(indexes) == \E index \in indexes : index.name = indexName

\* listIndexes answers; an index of the configured name exists: initialize
\* returns. Otherwise createIndex is called.
InitializeListIndexes ==
  /\ pinecone.pc = "list"
  /\ pinecone' = [pinecone EXCEPT
        !.pc = IF IndexExists(pinecone.indexes) THEN "done" ELSE "create"]
  /\ UNCHANGED <<processVars, splitCall, route, jobs,
                 shopify, clientVars>>

\* listIndexes throws: the catch block logs and rethrows.
InitializeListIndexesFails ==
  /\ pinecone.pc = "list"
  /\ pinecone' = [pinecone EXCEPT !.pc = "failed",
                                  !.error = "listIndexes failed"]
  /\ UNCHANGED <<processVars, splitCall, route, jobs,
                 shopify, clientVars>>

\* createIndex({name, dimension: vectorDimension, ...}) succeeds;
\* waitForIndexReady is entered with attempts = 0.
InitializeCreateIndex ==
  /\ pinecone.pc = "create"
  /\ pinecone' = [pinecone EXCEPT
        !.indexes = @ \cup {[name |-> indexName,
                             dimension |-> vectorDimension]},
        !.attempts = 0,
        !.pc = "wait"]
  /\ UNCHANGED <<processVars, splitCall, route, jobs,
                 shopify, clientVars>>

\* createIndex throws: the catch block logs and rethrows.
InitializeCreateIndexFails ==
  /\ pinecone.pc = "create"
  /\ pinecone' = [pinecone EXCEPT !.pc = "failed",
                                  !.error = "createIndex failed"]
  /\ UNCHANGED <<processVars, splitCall, route, jobs,
                 shopify, clientVars>>

\* waitForIndexReady: describeIndex reports the index ready.
WaitForIndexReady ==
  /\ pinecone.pc = "wait"
  /\ pinecone.attempts < maxAttempts
  /\ pinecone' = [pinecone EXCEPT !.pc = "done", !.attempts = 0]
  /\ UNCHANGED <<processVars, splitCall, route, jobs,
                 shopify, clientVars>>

\* waitForIndexReady: describeIndex reports not ready, or throws; the loop
\* sleeps and counts the attempt.
WaitForIndexNotReady ==
  /\ pinecone.pc = "wait"
  /\ pinecone.attempts < maxAttempts
  /\ pinecone' = [pinecone EXCEPT !.attempts = @ + 1]
  /\ UNCHANGED <<processVars, splitCall, route, jobs,
                 shopify, clientVars>>

\* waitForIndexReady: attempts reached maxAttempts.
WaitForIndexGivesUp ==
  /\ pinecone.pc = "wait"
  /\ pinecone.attempts >= maxAttempts
  /\ pinecone' = [pinecone EXCEPT
        !.pc = "failed", !.attempts = 0,
        !.error = "Pinecone index failed to become ready"]
  /\ UNCHANGED <<processVars, splitCall, route, jobs,
                 shopify, clientVars>>

(***************************************************************************)
(* PineconeService.initialize called by two requests together.             *)
(* callers[c] is the position of caller c; pinecone.indexes is the         *)
(* provider's set of indexes, which the callers share. The provider keeps  *)
(* index names unique: createIndex of a name that exists is rejected.      *)
(***************************************************************************)
InitializeCaller ==
  [pc |-> "list", attempts |-> 0, error |-> "", created |-> FALSE]

\* Two requests have called initialize; neither has had an answer yet.
ConcurrentInitializeInit ==
  /\ splitCall = NoSplitCall
  /\ ProcessInit({NoFile}, 0)
  /\ route = NoRoute
  /\ \E ixs \in UploadIndexSets :
       pinecone = [NoPinecone EXCEPT !.before = ixs, !.indexes = ixs]
  /\ jobs = NoJobs
  /\ uploader = NoUploader
  /\ priority = NoPriority
  /\ callers = [c \in 1..2 |-> InitializeCaller]

CallerUnchanged ==
  UNCHANGED <<processVars, splitCall, route, jobs, shopify, uploader,
              priority>>

\* listIndexes answers caller c with the indexes that exist now.
CallerListIndexes(c) ==
  /\ callers[c].pc = "list"
  /\ callers' = [callers EXCEPT
        ![c].pc = IF IndexExists(pinecone.indexes) THEN "done" ELSE "create"]
  /\ UNCHANGED pinecone
  /\ CallerUnchanged

\* listIndexes throws for caller c.
CallerListIndexesFails(c) ==
  /\ callers[c].pc = "list"
  /\ callers' = [callers EXCEPT ![c].pc = "failed",
                                ![c].error = "listIndexes failed"]
  /\ UNCHANGED pinecone
  /\ CallerUnchanged

\* createIndex of caller c reaches the provider while no index of the name
\* exists: the index is created; waitForIndexReady is entered.
CallerCreateIndex(c) ==
  /\ callers[c].pc = "create"
  /\ ~IndexExists(pinecone.indexes)
  /\ pinecone' = [pinecone EXCEPT
        !.indexes = @ \cup {[name |-> indexName,
                             dimension |-> vectorDimension]}]
  /\ callers' = [callers EXCEPT ![c].pc = "wait", ![c].attempts = 0,
                                ![c].created = TRUE]
  /\ CallerUnchanged

\* createIndex of caller c reaches the provider when an index of the name
\* exists already: the provider rejects it; the catch block rethrows.
CallerCreateIndexConflict(c) ==
  /\ callers[c].pc = "create"
  /\ IndexExists(pinecone.indexes)
  /\ callers' = [callers EXCEPT ![c].pc = "failed",
                                ![c].error = "index already exists"]
  /\ UNCHANGED pinecone
  /\ CallerUnchanged

\* createIndex throws for caller c for another reason.
CallerCreateIndexFails(c) ==
  /\ callers[c].pc = "create"
  /\ callers' = [callers EXCEPT ![c].pc = "failed",
                                ![c].error = "createIndex failed"]
  /\ UNCHANGED pinecone
  /\ CallerUnchanged

\* waitForIndexReady of caller c: describeIndex reports the index ready.
CallerWaitReady(c) ==
  /\ callers[c].pc = "wait"
  /\ callers[c].attempts < maxAttempts
  /\ callers' = [callers EXCEPT ![c].pc = "done", ![c].attempts = 0]
  /\ UNCHANGED pinecone
  /\ CallerUnchanged

\* waitForIndexReady of caller c: not ready yet; sleep, attempts++.
CallerWaitNotReady(c) ==
  /\ callers[c].pc = "wait"
  /\ callers[c].attempts < maxAttempts
  /\ callers' = [callers EXCEPT ![c].attempts = @ + 1]
  /\ UNCHANGED pinecone
  /\ CallerUnchanged

\* waitForIndexReady of caller c: attempts reached maxAttempts.
CallerWaitGivesUp(c) ==
  /\ callers[c].pc = "wait"
  /\ callers[c].attempts >= maxAttempts
  /\ callers' = [callers EXCEPT
        ![c].pc = "failed", ![c].attempts = 0,
        ![c].error = "Pinecone index failed to become ready"]
  /\ UNCHANGED pinecone
  /\ CallerUnchanged

(***************************************************************************)
(* POST /api/upload (route.ts)                                             *)
(***************************************************************************)
\* file.name.split('.').pop()?.toLowerCase()
Extension(f) == ToLowerCase(f.ext)

\* allowedExtensions: the three allow-lists of config.upload
AllowedExtensionsOfClassifier ==
  allowedTextFormats \cup audioExtensions \cup videoExtensions

allowedExtensions ==
  allowedTextFormats \cup allowedAudioFormats \cup allowedVideoFormats

\* maxSize and fileType for an allowed extension
MaxSizeOneCeiling(extension) == maxVideoFileSize

MaxSize(extension) ==
  IF extension \in allowedVideoFormats THEN maxVideoFileSize
  ELSE IF extension \in allowedAudioFormats THEN maxAudioFileSize
  ELSE maxFileSize

FileTypeLabel(extension) ==
  IF extension \in allowedVideoFormats THEN "Video"
  ELSE IF extension \in allowedAudioFormats THEN "Audio"
  ELSE "Text"

\* The 400 responses of the validation
BadRequest(message) ==
  [status |-> 400, success |-> FALSE, message |-> message, error |-> "",
   documentId |-> ""]

UnsupportedMessage(extension) ==
  "File type '" \o extension \o "' is not supported."

SizeMessage(extension) ==
  FileTypeLabel(extension) \o " file size exceeds maximum allowed size of "
    \o ToString(MaxSize(extension) \div (1024 * 1024)) \o "MB"

\* The catch block: status 500 with error.message
ServerError(err) ==
  [status |-> 500, success |-> FALSE, message |-> "Failed to process file",
   error |-> err, documentId |-> ""]

\* The response once processFile has settled
ResponseForAlwaysSuccess(settled) ==
  [status |-> 200, success |-> TRUE,
   message |-> "File uploaded and processed successfully", error |-> "",
   documentId |-> settled.id]

ResponseFor(settled) ==
  IF settled.kind = "resolved"
  THEN [status |-> 200, success |-> TRUE,
        message |-> "File uploaded and processed successfully",
        error |-> "", documentId |-> settled.id]
  ELSE ServerError(settled.error)

\* The handler up to the end of the validation: request.formData(), the file
\* field, the extension check and the size check.
PostValidate ==
  /\ route.pc = "received"
  /\ LET extension == Extension(file)
     IN  route' =
           IF route.body = "malformed"
           THEN [route EXCEPT !.pc = "responded",
                              !.response = ServerError("formData failed")]
           ELSE IF route.body = "nofile"
           THEN [route EXCEPT !.pc = "responded",
                              !.response = BadRequest("No file provided")]
           ELSE IF extension = "" \/ extension \notin allowedExtensions
           THEN [route EXCEPT !.pc = "responded",
                   !.response = BadRequest(UnsupportedMessage(extension))]
           ELSE IF file.size > MaxSize(extension)
           THEN [route EXCEPT !.pc = "responded",
                   !.response = BadRequest(SizeMessage(extension))]
           ELSE [route EXCEPT !.pc = "validated"]
  /\ UNCHANGED <<processVars, splitCall, pinecone, jobs,
                 shopify, clientVars>>

\* Buffer.from(await file.arrayBuffer()); getDocumentProcessingService();
\* initializePinecone() is called.
PostInitializePinecone ==
  /\ route.pc = "validated"
  /\ route' = [route EXCEPT !.pc = "initialize"]
  /\ pinecone' = InitializeCall(pinecone.indexes)
  /\ UNCHANGED <<processVars, splitCall, jobs,
                 shopify, clientVars>>

\* initializePinecone has resolved: processFile(buffer, file.name) is called.
PostProcessFile ==
  /\ route.pc = "initialize"
  /\ pinecone.pc = "done"
  /\ route' = [route EXCEPT !.pc = "processing"]
  /\ attemptsLeft' = 1
  /\ UNCHANGED <<run, pc, file, now, fs, filesToCleanup, processingSteps,
                 content, seg, segments, segI, segmentContents, document,
                 chunks, batch, inflight, store, cleanup, caught, outcome,
                 hist, progress, splitCall, pinecone, jobs, shopify,
                 clientVars>>

\* initializePinecone has thrown: the catch block answers 500.
PostInitializeFailed ==
  /\ route.pc = "initialize"
  /\ pinecone.pc = "failed"
  /\ route' = [route EXCEPT !.pc = "responded",
                            !.response = ServerError(pinecone.error)]
  /\ UNCHANGED <<processVars, splitCall, pinecone, jobs,
                 shopify, clientVars>>

\* processFile has settled: the success response, or the catch block.
PostRespond ==
  /\ route.pc = "processing"
  /\ run = 1
  /\ pc \in {"resolved", "rejected"}
  /\ route' = [route EXCEPT !.pc = "responded",
                            !.response = ResponseFor(outcome)]
  /\ UNCHANGED <<processVars, splitCall, pinecone, jobs,
                 shopify, clientVars>>

(***************************************************************************)
(* Two processFile jobs in flight together: their temp paths.              *)
(* Each job is the path-writing part of processFile: saveUploadedFile,     *)
(* segmentVideo, extractAudioFromVideo, cleanupFiles. The jobs share the   *)
(* upload directory (fs) and the clock (now).                              *)
(***************************************************************************)
\* The elements of a sequence.
PathsOf(q) == {q[k] : k \in 1..Len(q)}

\* Every temp path the job has written and not yet handed to cleanupFiles.
JobPaths(job) == PathsOf(job.filesToCleanup) \cup PathsOf(job.segmentPaths)

\* The clock advances.
Tick ==
  /\ jobs # NoJobs
  /\ now < MaxClock
  /\ now' = now + 1
  /\ UNCHANGED <<splitCall, run, attemptsLeft, pc, file, fs, filesToCleanup,
                 processingSteps, content, seg, segments, segI,
                 segmentContents, document, chunks, batch, inflight, store,
                 cleanup, caught, outcome, hist, progress, route, pinecone,
                 jobs, shopify, clientVars>>

JobUnchanged ==
  UNCHANGED <<splitCall, run, attemptsLeft, pc, file, now, filesToCleanup,
              processingSteps, content, seg, segments, segI, segmentContents,
              document, chunks, batch, inflight, store, cleanup, caught,
              outcome, hist, progress, route, pinecone, shopify,
              clientVars>>

\* saveUploadedFile; filesToCleanup.push(uploadedFilePath); the switch.
JobSave(j) ==
  /\ jobs[j].pc = "save"
  /\ LET f == jobs[j].file
         uploadedFilePath == UploadPath(now, f)
         fileType == determineFileType(f.ext)
     IN  /\ fs' = fs \cup {uploadedFilePath}
         /\ jobs' = [jobs EXCEPT
               ![j].filesToCleanup = <<uploadedFilePath>>,
               ![j].numSegments =
                  IF fileType = "video" /\ f.size > maxFileSize
                  THEN NumSegments(f.duration, videoSegmentMinutes * 60)
                  ELSE 0,
               ![j].pc =
                  IF fileType # "video" THEN "embed"
                  ELSE IF f.size > maxFileSize THEN "segment"
                  ELSE "extract"]
  /\ JobUnchanged

\* segmentVideo: one cut is written.
JobSegmentCut(j) ==
  /\ jobs[j].pc = "segment"
  /\ jobs[j].i < jobs[j].numSegments
  /\ LET segmentPath == SegmentPath(jobs[j].filesToCleanup[1], jobs[j].i)
     IN  /\ fs' = fs \cup {segmentPath}
         /\ jobs' = [jobs EXCEPT ![j].segmentPaths = Append(@, segmentPath),
                                 ![j].i = @ + 1]
  /\ JobUnchanged

\* segmentVideo returns; filesToCleanup.push(...segments)
JobRegisterSegments(j) ==
  /\ jobs[j].pc = "segment"
  /\ jobs[j].i >= jobs[j].numSegments
  /\ jobs' = [jobs EXCEPT
        ![j].filesToCleanup = @ \o jobs[j].segmentPaths,
        ![j].segmentPaths = <<>>,
        ![j].i = 0,
        ![j].pc = "segment_extract"]
  /\ fs' = fs
  /\ JobUnchanged

\* extractAudioFromVideo on the upload or on the next segment;
\* filesToCleanup.push(audioPath)
JobExtractAudio(j) ==
  /\ \/ jobs[j].pc = "extract"
     \/ jobs[j].pc = "segment_extract" /\ jobs[j].i < jobs[j].numSegments
  /\ LET source == IF jobs[j].pc = "extract" THEN jobs[j].filesToCleanup[1]
                   ELSE jobs[j].filesToCleanup[jobs[j].i + 2]
         audioPath == AudioPath(source)
     IN  /\ fs' = fs \cup {audioPath}
         /\ jobs' = [jobs EXCEPT
               ![j].filesToCleanup = Append(@, audioPath),
               ![j].i = @ + 1,
               ![j].pc = IF jobs[j].pc = "extract" THEN "embed"
                         ELSE "segment_extract"]
  /\ JobUnchanged

\* The segment loop is over.
JobSegmentsDone(j) ==
  /\ jobs[j].pc = "segment_extract"
  /\ jobs[j].i >= jobs[j].numSegments
  /\ jobs' = [jobs EXCEPT ![j].pc = "embed"]
  /\ fs' = fs
  /\ JobUnchanged

\* The job ends, by the end of the try block or by its catch block (after
\* segmentVideo's own catch block, when a cut failed): every unlink of
\* cleanupFiles is issued.
JobCleanup(j) ==
  /\ jobs[j].pc \in {"segment", "segment_extract", "extract", "embed"}
  /\ fs' = fs \ JobPaths(jobs[j])
  /\ jobs' = [jobs EXCEPT ![j].pc = "settled", ![j].filesToCleanup = <<>>,
                          ![j].segmentPaths = <<>>]
  /\ JobUnchanged

(***************************************************************************)
(* MultiFileUploader (components/MultiFileUploader.tsx).                   *)
(* A file item is [id, status]; uploader.fileItems is the React state,     *)
(* uploader.closure the fileItems value the running startBatchUpload       *)
(* closed over, uploader.requests the items whose fetch is outstanding.    *)
(* succeeded and failed record how the uploads of the run settled.         *)
(***************************************************************************)
\* fileItems.filter(item => item.status === status)
RECURSIVE FilterStatus(_, _)
FilterStatus(items, status) ==
  IF items = <<>> THEN <<>>
  ELSE (IF Head(items).status = status THEN <<Head(items)>> ELSE <<>>)
       \o FilterStatus(Tail(items), status)

\* prev.filter(item => item.id !== id)
RECURSIVE FilterOutId(_, _)
FilterOutId(items, id) ==
  IF items = <<>> THEN <<>>
  ELSE (IF Head(items).id # id THEN <<Head(items)>> ELSE <<>>)
       \o FilterOutId(Tail(items), id)

\* prev.filter(item => item.status !== 'complete')
RECURSIVE FilterNotComplete(_)
FilterNotComplete(items) ==
  IF items = <<>> THEN <<>>
  ELSE (IF Head(items).status # "complete" THEN <<Head(items)>> ELSE <<>>)
       \o FilterNotComplete(Tail(items))

\* prev.map(f => f.id === id ? {...f, status} : f)
SetStatus(items, ids, status) ==
  [k \in 1..Len(items) |->
     IF items[k].id \in ids THEN [items[k] EXCEPT !.status = status]
     ELSE items[k]]

\* The rest of the pending files, with no limit.
UploadBatchRest(pendingFiles, i) == SubSeq(pendingFiles, i + 1, Len(pendingFiles))

\* pendingFiles.slice(i, i + maxConcurrentUploads)
UploadBatch(pendingFiles, i) ==
  SubSeq(pendingFiles, i + 1, Min(Len(pendingFiles), i + maxConcurrentUploads))

\* The stats startBatchUpload computes: from the fileItems of its closure.
BatchStats(closure) ==
  [total |-> Len(closure),
   completed |-> Len(FilterStatus(closure, "complete")),
   failed |-> Len(FilterStatus(closure, "error")),
   inProgress |-> 0]

isUploading == uploader.pc # "idle"

\* addFiles(files): n new pending items (file picker or drop).
addFiles ==
  \E n \in 1..MaxFileItems :
    /\ uploader.nextId + n - 1 <= MaxFileItems
    /\ uploader' = [uploader EXCEPT
          !.fileItems = @ \o [k \in 1..n |->
                                [id |-> uploader.nextId + k - 1,
                                 status |-> "pending"]],
          !.nextId = @ + n]
    /\ UNCHANGED <<processVars, splitCall, route, pinecone, jobs, shopify,
                   priority, callers>>

\* removeFile(id): offered for a pending item while no batch runs.
removeFile ==
  /\ ~isUploading
  /\ \E k \in 1..Len(uploader.fileItems) :
       /\ uploader.fileItems[k].status = "pending"
       /\ uploader' = [uploader EXCEPT
             !.fileItems = FilterOutId(@, uploader.fileItems[k].id)]
  /\ UNCHANGED <<processVars, splitCall, route, pinecone, jobs, shopify,
                 priority, callers>>

\* clearCompleted: enabled while no batch runs and an item is complete.
clearCompleted ==
  /\ ~isUploading
  /\ FilterStatus(uploader.fileItems, "complete") # <<>>
  /\ uploader' = [uploader EXCEPT !.fileItems = FilterNotComplete(@)]
  /\ UNCHANGED <<processVars, splitCall, route, pinecone, jobs, shopify,
                 priority, callers>>

\* clearAll: enabled while no batch runs.
clearAll ==
  /\ ~isUploading
  /\ uploader.fileItems # <<>>
  /\ uploader' = [uploader EXCEPT !.fileItems = <<>>]
  /\ UNCHANGED <<processVars, splitCall, route, pinecone, jobs, shopify,
                 priority, callers>>

\* startBatchUpload is clicked (enabled while no batch runs and an item is
\* pending): setIsUploading(true); pendingFiles is filtered from fileItems.
startBatchUpload ==
  /\ ~isUploading
  /\ FilterStatus(uploader.fileItems, "pending") # <<>>
  /\ uploader' = [uploader EXCEPT
        !.pc = "loop",
        !.closure = uploader.fileItems,
        !.pendingFiles = FilterStatus(uploader.fileItems, "pending"),
        !.i = 0, !.stats = <<>>, !.succeeded = {}, !.failed = {}]
  /\ UNCHANGED <<processVars, splitCall, route, pinecone, jobs, shopify,
                 priority, callers>>

\* One pass of the loop: batch.map(item => uploadFile(item)). Every
\* uploadFile runs to its fetch: the item is marked uploading and the
\* request is sent.
BatchStart ==
  /\ uploader.pc = "loop"
  /\ uploader.i < Len(uploader.pendingFiles)
  /\ LET batchItems == UploadBatch(uploader.pendingFiles, uploader.i)
         ids == {batchItems[k].id : k \in 1..Len(batchItems)}
     IN  uploader' = [uploader EXCEPT
            !.pc = "await",
            !.fileItems = SetStatus(@, ids, "uploading"),
            !.requests = ids]
  /\ UNCHANGED <<processVars, splitCall, route, pinecone, jobs, shopify,
                 priority, callers>>

\* uploadFile, after the fetch: the response reports success with a
\* documentId (complete), or anything else happens (error). uploadFile
\* catches every error, so its promise always resolves.
UploadSettles ==
  /\ uploader.pc = "await"
  /\ \E id \in uploader.requests, ok \in BOOLEAN :
       uploader' = [uploader EXCEPT
          !.fileItems = SetStatus(@, {id}, IF ok THEN "complete" ELSE "error"),
          !.requests = @ \ {id},
          !.succeeded = IF ok THEN @ \cup {id} ELSE @,
          !.failed = IF ok THEN @ ELSE @ \cup {id}]
  /\ UNCHANGED <<processVars, splitCall, route, pinecone, jobs, shopify,
                 priority, callers>>

\* Promise.all of the batch resolves: i += maxConcurrentUploads.
BatchSettled ==
  /\ uploader.pc = "await"
  /\ uploader.requests = {}
  /\ uploader' = [uploader EXCEPT
        !.pc = "loop", !.i = @ + maxConcurrentUploads]
  /\ UNCHANGED <<processVars, splitCall, route, pinecone, jobs, shopify,
                 priority, callers>>

\* The loop is over: setIsUploading(false); the stats are computed and
\* passed to onBatchComplete.
BatchComplete ==
  /\ uploader.pc = "loop"
  /\ uploader.i >= Len(uploader.pendingFiles)
  /\ uploader' = [uploader EXCEPT
        !.pc = "idle",
        !.stats = <<BatchStats(uploader.closure)>>]
  /\ UNCHANGED <<processVars, splitCall, route, pinecone, jobs, shopify,
                 priority, callers>>

(***************************************************************************)
(* PineconeService.queryWithProductPriority / query.                       *)
(* A match is [id, score, source, priorityScore]; scores are in            *)
(* thousandths, so score + priorityScore / 1000 is score + priorityScore.  *)
(***************************************************************************)
\* Records of the index, with their similarity to the query embedding:
\* Shopify products (priorityScore 100, shopify-csv-processor) and general
\* documents (no priorityScore).
IndexRecords ==
  {[id |-> "p1", score |-> 500, source |-> "shopify", priorityScore |-> 100],
   [id |-> "p2", score |-> 850, source |-> "shopify", priorityScore |-> 100],
   [id |-> "g1", score |-> 900, source |-> "upload", priorityScore |-> 0],
   [id |-> "g2", score |-> 550, source |-> "upload", priorityScore |-> 0],
   [id |-> "g3", score |-> 300, source |-> "upload", priorityScore |-> 0]}

\* (a.score || 0) + ((a.metadata?.priorityScore || 0) / 1000), in thousandths
CombinedScore(match) == match.score + match.priorityScore

\* The provider's answer: the topK records of the set nearest to the query
\* vector, nearest first.
RECURSIVE NearestFirst(_, _)
NearestFirst(records, topK) ==
  IF records = {} \/ topK = 0 THEN <<>>
  ELSE LET best == CHOOSE r \in records :
                     \A other \in records : other.score <= r.score
       IN  <<best>> \o NearestFirst(records \ {best}, topK - 1)

\* Math.ceil(topK * 0.6) and Math.ceil(topK * 0.4)
ProductTopK(topK) == (6 * topK + 9) \div 10
GeneralTopK(topK) == (4 * topK + 9) \div 10

\* Array.prototype.sort((a, b) => scoreB - scoreA): stable, descending.
RECURSIVE InsertByScore(_, _)
InsertByScore(sorted, match) ==
  IF sorted = <<>> THEN <<match>>
  ELSE IF CombinedScore(Head(sorted)) >= CombinedScore(match)
       THEN <<Head(sorted)>> \o InsertByScore(Tail(sorted), match)
       ELSE <<match>> \o sorted

RECURSIVE SortByScore(_)
SortByScore(matches) ==
  IF matches = <<>> THEN <<>>
  ELSE InsertByScore(SortByScore(SubSeq(matches, 1, Len(matches) - 1)),
                     matches[Len(matches)])

\* allResults.sort(...).slice(0, topK)
CombineResults(products, general, topK) ==
  LET sorted == SortByScore(products \o general)
  IN  SubSeq(sorted, 1, Min(Len(sorted), topK))

\* queryWithProductPriority(embedding, topK, prioritizeProducts) is called
\* on an index that holds some of the records.
PriorityInit ==
  /\ splitCall = NoSplitCall
  /\ ProcessInit({NoFile}, 0)
  /\ route = NoRoute
  /\ pinecone = NoPinecone
  /\ jobs = NoJobs
  /\ uploader = NoUploader
  /\ callers = NoCallers
  /\ \E topK \in 1..MaxTopK, prioritizeProducts \in BOOLEAN,
        records \in SUBSET IndexRecords :
       priority = [pc |-> IF prioritizeProducts THEN "products" ELSE "query",
                   topK |-> topK, prioritizeProducts |-> prioritizeProducts,
                   records |-> records,
                   products |-> <<>>, general |-> <<>>, result |-> <<>>]

\* index.query with filter source = 'shopify' answers.
QueryProducts ==
  /\ priority.pc = "products"
  /\ priority' = [priority EXCEPT
        !.pc = "general",
        !.products = NearestFirst({r \in priority.records :
                                     r.source = "shopify"},
                                  ProductTopK(priority.topK))]
  /\ UNCHANGED <<processVars, splitCall, route, pinecone, jobs, shopify,
                 uploader, callers>>

\* index.query with filter source != 'shopify' answers; the results are
\* combined, sorted and cut to topK.
QueryGeneral ==
  /\ priority.pc = "general"
  /\ LET general == NearestFirst({r \in priority.records :
                                    r.source # "shopify"},
                                 GeneralTopK(priority.topK))
     IN  priority' = [priority EXCEPT
            !.pc = "done",
            !.general = general,
            !.result = CombineResults(priority.products, general,
                                      priority.topK)]
  /\ UNCHANGED <<processVars, splitCall, route, pinecone, jobs, shopify,
                 uploader, callers>>

\* prioritizeProducts is false: this.query(embedding, topK).
QueryStandard ==
  /\ priority.pc = "query"
  /\ priority' = [priority EXCEPT
        !.pc = "done",
        !.result = NearestFirst(priority.records, priority.topK)]
  /\ UNCHANGED <<processVars, splitCall, route, pinecone, jobs, shopify,
                 uploader, callers>>

\* An index.query throws: the catch block logs and rethrows.
QueryFails ==
  /\ priority.pc \in {"products", "general", "query"}
  /\ priority' = [priority EXCEPT !.pc = "failed"]
  /\ UNCHANGED <<processVars, splitCall, route, pinecone, jobs, shopify,
                 uploader, callers>>

PriorityNext ==
  \/ QueryProducts
  \/ QueryGeneral
  \/ QueryStandard
  \/ QueryFails

SpecPriority == PriorityInit /\ [][PriorityNext]_vars

(***************************************************************************)
(* Specifications.                                                         *)
(***************************************************************************)
Next ==
  \/ StartRun
  \/ SaveUploadedFile
  \/ SaveUploadedFileFails
  \/ ProcessTextFile
  \/ ProcessTextFileFails
  \/ GetFileSize
  \/ SegmentProbe
  \/ SegmentCut
  \/ SegmentCutFails
  \/ SegmentReturn
  \/ CleanupDoneSegment
  \/ RegisterSegments
  \/ CatchSegmentError
  \/ ExtractAudio
  \/ ExtractAudioFails
  \/ ProcessAudioFile
  \/ ProcessAudioFileFails
  \/ JoinSegments
  \/ BuildDocument
  \/ EmbedIssue
  \/ BatchIssue
  \/ EmbedDone
  \/ EmbedFails
  \/ UpsertDocument
  \/ UpsertChunk
  \/ UpsertFails
  \/ BatchLoopExit
  \/ CleanupFile
  \/ CleanupFileFails
  \/ CleanupDoneReject
  \/ CleanupDoneResolve

\* processFile runs once on an upload.
Spec == Init /\ [][Next]_vars

RetryNext ==
  \/ StartRun
  \/ SaveUploadedFile
  \/ SaveUploadedFileFails
  \/ ProcessTextFile
  \/ ProcessTextFileFails
  \/ GetFileSize
  \/ ExtractAudio
  \/ ExtractAudioFails
  \/ ProcessAudioFile
  \/ ProcessAudioFileFails
  \/ BuildDocument
  \/ EmbedIssue
  \/ BatchIssue
  \/ EmbedDone
  \/ EmbedFails
  \/ UpsertDocument
  \/ UpsertChunk
  \/ UpsertFails
  \/ BatchLoopExit
  \/ CleanupFile
  \/ CleanupFileFails
  \/ CleanupDoneReject
  \/ CleanupDoneResolve

\* processFile runs on an upload that needs no segmentation, then once more
\* on the same upload.
SpecRetry == RetryInit /\ [][RetryNext]_vars

SplitNext == SplitReturn

\* splitTextIntoChunks on every enumerated text, chunk size and overlap.
SpecSplit == SplitInit /\ [][SplitNext]_vars

SegmentNext ==
  \/ SegmentProbe
  \/ SegmentCut
  \/ SegmentCutFails
  \/ SegmentReturn
  \/ CleanupFile
  \/ CleanupFileFails
  \/ CleanupDoneSegment

\* segmentVideo on every sampled duration and window.
SpecSegment == SegmentInit /\ [][SegmentNext]_vars

UploadNext ==
  \/ PostValidate
  \/ PostInitializePinecone
  \/ PostProcessFile
  \/ PostInitializeFailed
  \/ PostRespond
  \/ InitializeListIndexes
  \/ InitializeListIndexesFails
  \/ InitializeCreateIndex
  \/ InitializeCreateIndexFails
  \/ WaitForIndexReady
  \/ WaitForIndexNotReady
  \/ WaitForIndexGivesUp
  \/ Next

\* One request to POST /api/upload, from its arrival to its response.
SpecUpload == UploadInit /\ [][UploadNext]_vars

ConcurrentNext ==
  \/ Tick
  \/ \E j \in 1..2 :
       \/ JobSave(j)
       \/ JobSegmentCut(j)
       \/ JobRegisterSegments(j)
       \/ JobExtractAudio(j)
       \/ JobSegmentsDone(j)
       \/ JobCleanup(j)

\* Two processFile jobs run together in one server process.
SpecConcurrent == ConcurrentInit /\ [][ConcurrentNext]_vars

InitializeNext ==
  \/ InitializeListIndexes
  \/ InitializeListIndexesFails
  \/ InitializeCreateIndex
  \/ InitializeCreateIndexFails
  \/ WaitForIndexReady
  \/ WaitForIndexNotReady
  \/ WaitForIndexGivesUp

\* initialize on every enumerated set of existing indexes.
SpecInitialize == InitializeInit /\ [][InitializeNext]_vars

\* processFile with its Shopify CSV branch.
ShopifyNext ==
  \/ Next
  \/ ShopifyParse
  \/ ShopifyParseFails
  \/ ShopifyProduct
  \/ ShopifyProductFails
  \/ ShopifyReturn

SpecShopify == ShopifyInit /\ [][ShopifyNext]_vars

\* Two concurrent callers of initialize.
ConcurrentInitializeNext ==
  \E c \in 1..2 :
    \/ CallerListIndexes(c)
    \/ CallerListIndexesFails(c)
    \/ CallerCreateIndex(c)
    \/ CallerCreateIndexConflict(c)
    \/ CallerCreateIndexFails(c)
    \/ CallerWaitReady(c)
    \/ CallerWaitNotReady(c)
    \/ CallerWaitGivesUp(c)

SpecConcurrentInitialize ==
  ConcurrentInitializeInit /\ [][ConcurrentInitializeNext]_vars

\* The batch uploader in the browser, from its construction.
BatchUploadInit == splitCall = NoSplitCall /\ PipelineInit({NoFile}, 0)

BatchUploadNext ==
  \/ addFiles
  \/ removeFile
  \/ clearCompleted
  \/ clearAll
  \/ startBatchUpload
  \/ BatchStart
  \/ UploadSettles
  \/ BatchSettled
  \/ BatchComplete

SpecBatchUpload == BatchUploadInit /\ [][BatchUploadNext]_vars

(***************************************************************************)
(* Properties.                                                             *)
(***************************************************************************)
Range(q) == {q[i] : i \in 1..Len(q)}

Prefix(q, k) == SubSeq(q, 1, k)

Suffix(q, k) == SubSeq(q, Len(q) - k + 1, Len(q))

RECURSIVE SumOfT(_)
SumOfT(cuts) == IF cuts = <<>> THEN 0 ELSE cuts[1].t + SumOfT(Tail(cuts))

\* C1: when processFile rejects after a temp path was registered, the
\* deletion of every registered path has been attempted (failed deletions
\* included, each settled) and the rejection carries the error that entered
\* the catch block.
C1_CleanupBeforeReject ==
  (pc = "rejected" /\ filesToCleanup # <<>>) =>
     /\ hist.attempted = Range(filesToCleanup)
     /\ cleanup = NoCleanup
     /\ outcome.kind = "rejected"
     /\ outcome.error = caught
     /\ caught # ""

\* C1 witness: a rejected run with several registered paths, one deletion
\* failed (the file is still there) and a later one succeeded.
C1_Witness ==
  /\ pc = "rejected"
  /\ Len(filesToCleanup) >= 3
  /\ filesToCleanup[1] \in fs
  /\ filesToCleanup[Len(filesToCleanup)] \notin fs
  /\ hist.attempted = Range(filesToCleanup)

\* C2 as claimed: when an embedding batch of a multi-chunk document fails,
\* no record of that document has been written to the store.
C2_NoPartialCommit ==
  (pc = "rejected" /\ caught = "Failed to create embeddings") =>
     /\ hist.written = {}
     /\ DOMAIN store = {}

\* C2 amended: when an embedding batch fails, the records written are
\* exactly those of the chunks of the batches completed before it: none of
\* the failing batch or a later one, all of the earlier ones.
C2_EarlierBatchesKept ==
  (pc = "rejected" /\ caught = "Failed to create embeddings") =>
     /\ hist.written = {ChunkId(document.id, k) : k \in 0..(batch.i - 1)}
     /\ DOMAIN store = hist.written
     /\ batch.i % batchSize = 0
     /\ batch.i < Len(chunks)

\* C2 witness: the second batch failed and the first batch's records are in
\* the store.
C2_Witness ==
  /\ pc = "rejected"
  /\ caught = "Failed to create embeddings"
  /\ batch.i = batchSize
  /\ Cardinality(DOMAIN store) = batchSize

RunIds == IF Len(chunks) = 1 THEN {document.id}
          ELSE {ChunkId(document.id, k) : k \in 0..(Len(chunks) - 1)}

C4_BoundedOutstanding ==
  /\ Cardinality(inflight) <= 1
  /\ \A call \in inflight :
        /\ Len(call.texts) <= batchSize
        /\ Len(call.texts) >= 1
        /\ pc = "embed_wait"
        /\ call.batch = batch.i
  /\ pc \in {"embed", "batch_store", "upsert"} => inflight = {}

\* C4 witness: the request of the second batch is outstanding, after a
\* first batch of batchSize texts.
C4_Witness ==
  \E call \in inflight :
     /\ call.batch = batchSize
     /\ Len(chunks) > batchSize
     /\ Cardinality(DOMAIN store) = batchSize

ResultOf(call) == call.state = "returned"

\* C5 as claimed: for a text longer than the effective chunk bound, every
\* returned chunk is at most that bound long.
C5_ChunksWithinBound ==
  (ResultOf(splitCall)
     /\ Len(splitCall.text) > EffectiveChunkSize(splitCall.chunkSize)) =>
     \A i \in 1..Len(splitCall.result) :
        Len(splitCall.result[i]) <= EffectiveChunkSize(splitCall.chunkSize)

\* C6 as claimed: for a text within the effective chunk bound, the result
\* is one chunk, the trimmed text.
C6_FastPathTrimmed ==
  (ResultOf(splitCall)
     /\ Len(splitCall.text) <= EffectiveChunkSize(splitCall.chunkSize)) =>
     splitCall.result = <<Trim(splitCall.text)>>

\* C6 amended: for a text within the effective chunk bound, the result is
\* one chunk, the text as given (not trimmed).
C6_FastPathUnchanged ==
  (ResultOf(splitCall)
     /\ Len(splitCall.text) <= EffectiveChunkSize(splitCall.chunkSize)) =>
     splitCall.result = <<splitCall.text>>

\* C6 witness: a text exactly as long as the bound, with blanks at its ends,
\* came back as it was.
C6_Witness ==
  /\ ResultOf(splitCall)
  /\ Len(splitCall.text) = EffectiveChunkSize(splitCall.chunkSize)
  /\ Trim(splitCall.text) # splitCall.text
  /\ splitCall.result = <<splitCall.text>>

\* C7 as claimed: when several chunks are returned, every chunk after the
\* first begins with a non-empty tail of the chunk before it.
C7_OverlapNonEmpty ==
  (ResultOf(splitCall) /\ Len(splitCall.result) > 1) =>
     \A i \in 2..Len(splitCall.result) :
        \E k \in 1..Min(Len(splitCall.result[i]),
                        Len(splitCall.result[i - 1])) :
           Prefix(splitCall.result[i], k) = Suffix(splitCall.result[i - 1], k)

SegmentSeconds == seg.minutes * 60

\* C8: when segmentVideo returns for a video whose probed duration is D, it
\* returns ceil(D / (W*60)) paths, segment 1 first, and segment i was cut
\* from second (i-1)*W*60 on.
C8_SegmentCount ==
  pc = "seg_returned" =>
     /\ Len(segments) * SegmentSeconds >= seg.duration
     /\ (Len(segments) - 1) * SegmentSeconds < seg.duration
          \/ (Len(segments) = 0 /\ seg.duration = 0)
     /\ Len(seg.cuts) = Len(segments)
     /\ \A i \in 1..Len(segments) :
          /\ segments[i] = SegmentPath(seg.videoPath, i - 1)
          /\ segments[i].seg = i
          /\ seg.cuts[i].out = segments[i]
          /\ seg.cuts[i].ss = (i - 1) * SegmentSeconds

\* C8 witness: a probed duration just over two windows gave three segments.
C8_Witness ==
  /\ pc = "seg_returned"
  /\ seg.duration = file.duration
  /\ seg.duration = 2 * SegmentSeconds + 1
  /\ Len(segments) = 3

\* C9 as claimed: the durations declared for the cuts sum to D, the last
\* cut being declared with the remaining duration.
C9_DeclaredDurationsSumToD ==
  (pc = "seg_returned" /\ seg.duration = file.duration) =>
     /\ SumOfT(seg.cuts) = seg.duration
     /\ \A i \in 1..Len(seg.cuts) :
          seg.cuts[i].t = Min(SegmentSeconds, seg.duration - seg.cuts[i].ss)

\* C9 amended: every cut, the last included, is declared with the whole
\* window W*60, so the declared durations sum to n*W*60, which is at least
\* the probed duration and less than one window above it.
C9_EveryCutFullWindow ==
  pc = "seg_returned" =>
     /\ \A i \in 1..Len(seg.cuts) : seg.cuts[i].t = SegmentSeconds
     /\ SumOfT(seg.cuts) = Len(segments) * SegmentSeconds
     /\ SumOfT(seg.cuts) >= seg.duration
     /\ SumOfT(seg.cuts) < seg.duration + SegmentSeconds

\* C9 witness: the last of several cuts is declared longer than what is
\* left of the video.
C9_Witness ==
  /\ pc = "seg_returned"
  /\ Len(seg.cuts) >= 2
  /\ seg.duration = file.duration
  /\ seg.cuts[Len(seg.cuts)].t > seg.duration - seg.cuts[Len(seg.cuts)].ss

\* The transcripts of the segments 1..n, each behind its marker.
RECURSIVE MarkedTranscripts(_, _)
MarkedTranscripts(i, n) ==
  IF i > n THEN <<>>
  ELSE
    LET piece == <<"[", "S", "e", "g", "m", "e", "n", "t", " ">> \o Digits(i)
                   \o <<"/">> \o Digits(n) \o <<"]", "\n">>
                   \o TranscriptOf(AudioPath(segments[i]))
    IN  (IF i = 1 THEN piece ELSE <<"\n", "\n">> \o piece)
          \o MarkedTranscripts(i + 1, n)

Segmented == Len(processingSteps) >= 1 /\ processingSteps[1] = "video_segmentation"

\* C10: in a segmented run the segments are extracted and transcribed one
\* after the other, each once, in ascending order; once the loop is over,
\* the content is the n transcripts in segment order, piece i behind the
\* marker "[Segment i/n]".
C10_SegmentsInOrder ==
  Segmented =>
     /\ \A k \in 1..Len(hist.extracted) : hist.extracted[k] = k
     /\ \A k \in 1..Len(hist.transcribed) : hist.transcribed[k] = k
     /\ Len(hist.transcribed) <= Len(hist.extracted)
     /\ Len(hist.extracted) <= Len(hist.transcribed) + 1
     /\ Len(hist.extracted) <= Len(seg.segmentPaths)
     /\ pc \in {"document", "embed", "embed_wait", "upsert", "batch_store",
                "resolved"} =>
          /\ Len(hist.extracted) = Len(segments)
          /\ Len(hist.transcribed) = Len(segments)
          /\ content = MarkedTranscripts(1, Len(segments))

\* C10 witness: a video of three segments has been transcribed and joined.
C10_Witness ==
  /\ Segmented
  /\ pc = "document"
  /\ Len(segments) = 3
  /\ hist.transcribed = <<1, 2, 3>>
  /\ content # <<>>

\* The index of the configured name that existed when initialize was called
\* has dimension d.
ExistedWithDimension(d) ==
  [name |-> indexName, dimension |-> d] \in pinecone.before

\* C13: initialize is a no-op (it changes no index and resolves unless the
\* listing itself fails) when an index of the configured name and dimension
\* exists, and it fails when an index of that name exists with another
\* dimension.
C13_InitializeChecksDimension ==
  /\ ExistedWithDimension(vectorDimension) =>
        /\ pinecone.indexes = pinecone.before
        /\ pinecone.pc \in {"list", "done", "failed"}
        /\ pinecone.pc = "failed" => pinecone.error = "listIndexes failed"
  /\ (\E d \in IndexDimensions \ {vectorDimension} : ExistedWithDimension(d))
        => pinecone.pc # "done"

\* processFile was never entered, nothing was written to the temp directory
\* and no remote service (index, transcription, embedding, upsert) was called.
NothingProcessed ==
  /\ run = 0
  /\ attemptsLeft = 0
  /\ pc = "idle"
  /\ fs = {}
  /\ filesToCleanup = <<>>
  /\ pinecone.pc = "none"
  /\ pinecone.indexes = pinecone.before
  /\ hist = NoHist
  /\ document = NoDocument
  /\ inflight = {}
  /\ store = <<>>

InNoAllowList(f) ==
  ToLowerCase(f.ext) \notin
    (allowedTextFormats \cup allowedAudioFormats \cup allowedVideoFormats)

\* C11: an upload whose extension is in none of the allow-lists is answered
\* with the unsupported-type error, and at no point of the request is a temp
\* file written or a remote call made.
C11_UnsupportedRejectedFirst ==
  (route.body = "file" /\ InNoAllowList(file)) =>
    /\ NothingProcessed
    /\ route.pc \in {"received", "responded"}
    /\ route.pc = "responded" =>
         route.response = BadRequest(UnsupportedMessage(ToLowerCase(file.ext)))

C11_Witness ==
  /\ route.pc = "responded"
  /\ route.body = "file"
  /\ file.ext = "aac"
  /\ route.response.status = 400
  /\ NothingProcessed

\* The upload is larger than the ceiling of its category.
OverCeiling(f) ==
  LET e == ToLowerCase(f.ext)
  IN  \/ e \in allowedTextFormats /\ f.size > maxFileSize
      \/ e \in allowedAudioFormats /\ f.size > maxAudioFileSize
      \/ e \in allowedVideoFormats /\ f.size > maxVideoFileSize

\* C12: an upload over the ceiling of its category (text, audio, video) is
\* answered 400 without processFile being invoked, a temp file written or a
\* remote call made.
C12_OversizedRejectedFirst ==
  (route.body = "file" /\ OverCeiling(file)) =>
    /\ NothingProcessed
    /\ route.pc \in {"received", "responded"}
    /\ route.pc = "responded" =>
         /\ route.response.status = 400
         /\ ~route.response.success
         /\ route.response.message = SizeMessage(ToLowerCase(file.ext))

C12_Witness ==
  /\ route.pc = "responded"
  /\ route.body = "file"
  /\ file.ext = "mp3"
  /\ file.size = maxAudioFileSize + 1
  /\ route.response.status = 400
  /\ NothingProcessed

\* C18: when the embedding or the upsert of a later chunk fails after chunk
\* records of the same document were written, processFile rejects, the
\* response says success = false with the error's message, and the records
\* written before the failure are still in the store.
C18_PartialFailureReported ==
  (caught \in {"Failed to create embeddings", "upsert failed"}
     /\ hist.written # {}) =>
    /\ hist.written \subseteq DOMAIN store
    /\ route.pc = "responded" =>
         /\ outcome.kind = "rejected"
         /\ outcome.error = caught
         /\ route.response.status = 500
         /\ ~route.response.success
         /\ route.response.error = caught

C18_Witness ==
  /\ route.pc = "responded"
  /\ caught = "Failed to create embeddings"
  /\ Cardinality(hist.written) = batchSize
  /\ hist.written \subseteq DOMAIN store
  /\ ~route.response.success

\* The job has saved its upload and has not settled.
InFlight(job) == job.pc \notin {"save", "settled"}

\* C14: two jobs in flight never hold a temp path in common, whatever their
\* filenames and the time at which each saved its upload.
C14_TempPathsDisjoint ==
  (InFlight(jobs[1]) /\ InFlight(jobs[2])) =>
    JobPaths(jobs[1]) \cap JobPaths(jobs[2]) = {}

\* a <= b, for percentages held as fractions
PercentLeq(a, b) == a.num * b.den <= b.num * a.den

\* C15: in every processFile run the percentages passed to onProgress never
\* decrease from one call to the next.
C15_ProgressNonDecreasing ==
  \A k \in 1..(Len(progress) - 1) : PercentLeq(progress[k], progress[k + 1])

\* No page of the parsed PDF holds a run with text.
NoTextRuns(pages) ==
  \A p \in 1..Len(pages) :
    \A e \in 1..Len(pages[p].Texts) : CombinedText(pages[p].Texts[e].R) = <<>>

\* C16: for a PDF without any text (no pages, or pages without text runs)
\* processTextFile throws, the run ends rejected, and nothing of the file is
\* embedded or stored.
C16_EmptyPdfFails ==
  (file.ext = "pdf" /\ NoTextRuns(file.pages)) =>
    /\ pc # "resolved"
    /\ document = NoDocument
    /\ inflight = {}
    /\ store = <<>>
    /\ pc = "rejected" =>
         outcome.error \in {"writeFile failed",
                            "Failed to extract text from PDF: "
                               \o Filename(file)}

\* The errors the media converter's callers throw when a command fails for
\* the given cause.
ConverterErrors(cause) == {ExtractAudioError(cause), SegmentVideoError(cause)}

\* C17: the error of a failed media-converter command tells whether the
\* binary was absent or the tool failed: the error thrown for one cause is
\* never an error thrown for the other cause.
C17_AbsentBinaryDistinguishable ==
  (hist.cause \in Causes /\ caught # "") =>
    \A other \in Causes \ {hist.cause} : caught \notin ConverterErrors(other)

\* The stored record names chunk k of n in its metadata: in a chunk index
\* field, or in the processing-step log.
CarriesIndex(rec, k, n) ==
  \/ "chunkIndex" \in DOMAIN rec /\ rec.chunkIndex = k
  \/ /\ "processingSteps" \in DOMAIN rec
     /\ \E p \in 1..Len(rec.processingSteps) :
          rec.processingSteps[p] = ChunkStep(k, n)

\* C19: every record written for a chunk of a document of several chunks
\* carries the chunk's index in its stored metadata.
C19_StoredMetadataHasIndex ==
  \A k \in 0..(Len(chunks) - 1) :
    (Len(chunks) > 1 /\ ChunkId(document.id, k) \in DOMAIN store) =>
      CarriesIndex(store[ChunkId(document.id, k)], k, Len(chunks))

\* The paths of the segments segmentVideo created before the cut that
\* failed.
EarlierSegments ==
  {SegmentPath(seg.videoPath, i) : i \in 0..(hist.cutFailedAt - 2)}

\* C20 as stated: when the cut of segment k fails, the files of segments
\* 1..k-1 are gone from the temp directory when segmentVideo throws, and
\* the caller has received no segment path.
C20_EarlierSegmentsDeleted ==
  pc = "seg_threw" =>
    /\ EarlierSegments \cap fs = {}
    /\ segments = <<>>

\* C20, amended: when the cut of segment k fails, the unlink of every
\* segment 1..k-1 has been issued and has settled (a failed unlink is
\* swallowed) when segmentVideo throws, and the caller has received no
\* segment path.
C20_EarlierSegmentsUnlinked ==
  pc = "seg_threw" =>
    /\ hist.attempted = EarlierSegments
    /\ Cardinality(EarlierSegments) = hist.cutFailedAt - 1
    /\ cleanup = NoCleanup
    /\ segments = <<>>
    /\ filesToCleanup \in {<<>>, <<seg.videoPath>>}

C20_Witness ==
  /\ pc = "seg_threw"
  /\ hist.cutFailedAt = 3
  /\ Cardinality(hist.attempted) = 2
  /\ EarlierSegments \cap fs = {}

\* The texts handed to the embedding call that is outstanding: the content
\* for createEmbedding, the batch's chunks for createEmbeddings.
EmbeddingInputs == IF Len(chunks) = 1 THEN <<content>> ELSE batch.batchChunks

\* sent is what the service sends for text: text itself up to the ceiling,
\* its first maxLength characters and then "..." above it.
SentFor(text, sent) ==
  IF Len(text) <= maxLength
  THEN sent = text
  ELSE /\ Len(sent) = maxLength + 3
       /\ \A k \in 1..maxLength : sent[k] = text[k]
       /\ \A k \in (maxLength + 1)..(maxLength + 3) : sent[k] = "."

\* C21: every text passed to createEmbedding or createEmbeddings reaches the
\* provider: a text over the ceiling as its first maxLength characters
\* followed by "...", a text within the ceiling unchanged; the service
\* itself rejects none of them.
C21_TruncatedNeverRejected ==
  pc = "embed_wait" =>
    /\ Cardinality(inflight) = 1
    /\ \A call \in inflight :
         /\ Len(call.texts) = Len(EmbeddingInputs)
         /\ \A k \in 1..Len(call.texts) :
              SentFor(EmbeddingInputs[k], call.texts[k])

\* A request is outstanding that carries both a text over the ceiling and
\* a text within it.
C21_Witness ==
  /\ pc = "embed_wait"
  /\ \E call \in inflight :
       /\ \E k \in 1..Len(call.texts) : Len(EmbeddingInputs[k]) > maxLength
       /\ \E k \in 1..Len(call.texts) : Len(EmbeddingInputs[k]) <= maxLength

\* The position (from 1) of file item id in the pending files of the run.
PendingPosition(id) ==
  CHOOSE k \in 1..Len(uploader.pendingFiles) : uploader.pendingFiles[k].id = id

\* The status file item id has now.
StatusOf(id) ==
  LET k == CHOOSE k \in 1..Len(uploader.fileItems) :
             uploader.fileItems[k].id = id
  IN  uploader.fileItems[k].status

\* C22: during a batch upload at most maxConcurrentUploads requests are in
\* flight, every request in flight belongs to the group that starts at i,
\* every upload of an earlier group has settled and no upload of a later
\* group has started.
C22_BoundedConcurrentUploads ==
  /\ Cardinality(uploader.requests) <= maxConcurrentUploads
  /\ \A id \in uploader.requests :
       /\ PendingPosition(id) > uploader.i
       /\ PendingPosition(id) <= uploader.i + maxConcurrentUploads
  /\ isUploading =>
       \A k \in 1..Len(uploader.pendingFiles) :
         LET status == StatusOf(uploader.pendingFiles[k].id)
         IN  /\ k <= uploader.i => status \in {"complete", "error"}
             /\ k > uploader.i + maxConcurrentUploads => status = "pending"

\* A second group is in flight: the run has more pending files than one
\* group holds and the first group has settled.
C22_Witness ==
  /\ uploader.i = maxConcurrentUploads
  /\ uploader.requests # {}
  /\ Len(uploader.pendingFiles) > maxConcurrentUploads

\* C23: with prioritizeProducts, every Shopify product match of the
\* returned list precedes every other match.
C23_ProductsFirst ==
  (priority.pc = "done" /\ priority.prioritizeProducts) =>
    \A i \in 1..Len(priority.result), j \in 1..Len(priority.result) :
      (priority.result[i].source # "shopify"
         /\ priority.result[j].source = "shopify") => j < i

\* The duration probe of segmentVideo failed: getMediaDuration returned 0
\* for a video that has a duration.
ProbeFailed == seg # NoSeg /\ pc # "seg_probe" /\ seg.duration = 0
               /\ file.duration > 0

\* C24: when the duration probe of a video routed to segmentation fails,
\* the run does not go on with zero segments: no empty transcript is
\* chunked, embedded or stored.
C24_ProbeFailureNotZeroLength ==
  ProbeFailed =>
    /\ chunks = <<>>
    /\ inflight = {}
    /\ store = <<>>
    /\ pc # "resolved"

\* The upload is classified as text and is no Shopify CSV, and its run has
\* passed the save.
TextConverted ==
  /\ determineFileType(file.ext) = "text"
  /\ ~IsShopifyCsv(file)
  /\ pc \notin {"idle", "save"}

\* C25 as stated: for an upload classified as text processFile writes no
\* temp file and registers no path for cleanup.
C25_TextWritesNothing ==
  determineFileType(file.ext) = "text" =>
    /\ fs = {}
    /\ filesToCleanup = <<>>

\* C25, amended: for an upload classified as text that is not handled as a
\* Shopify CSV, processFile writes one temp file, the saved copy of the
\* upload, and registers its path for cleanup; it writes no other temp file
\* and registers no other path.
C25_TextWritesUploadOnly ==
  determineFileType(file.ext) = "text" =>
    /\ fs \subseteq {UploadPath(now, file)}
    /\ Len(filesToCleanup) <= 1
    /\ (TextConverted /\ caught # "writeFile failed") =>
         filesToCleanup = <<UploadPath(now, file)>>
    /\ pc = "text" => fs = {UploadPath(now, file)}
    /\ IsShopifyCsv(file) => (fs = {} /\ filesToCleanup = <<>>)

\* A text upload has been saved and its text extracted.
C25_Witness ==
  /\ determineFileType(file.ext) = "text"
  /\ pc = "document"
  /\ filesToCleanup = <<UploadPath(now, file)>>
  /\ UploadPath(now, file) \in fs

\* C27: whenever processFile resolves, the id of the returned document is
\* the id of a record this run upserted into the vector store.
C27_ReturnedIdIsStored ==
  pc = "resolved" =>
    /\ outcome.id = document.id
    /\ outcome.id \in DOMAIN store
    /\ outcome.id \in hist.written

\* The number of occurrences of character c in text.
RECURSIVE CountChar(_, _)
CountChar(c, text) ==
  IF text = <<>> THEN 0
  ELSE (IF Head(text) = c THEN 1 ELSE 0) + CountChar(c, Tail(text))

\* The number of occurrences of character c in all the chunks together.
RECURSIVE CountInChunks(_, _)
CountInChunks(c, list) ==
  IF list = <<>> THEN 0
  ELSE CountChar(c, Head(list)) + CountInChunks(c, Tail(list))

\* C26: on the slow path no input content is lost: every non-whitespace
\* character of the input, text after the last terminator included, occurs
\* in the returned chunks at least as often as in the input.
C26_NoContentLost ==
  (ResultOf(splitCall)
     /\ Len(splitCall.text) > EffectiveChunkSize(splitCall.chunkSize)) =>
     \A c \in Alphabet :
        ~IsSpace(c) =>
           CountInChunks(c, splitCall.result) >= CountChar(c, splitCall.text)

\* The number of words (non-empty pieces between spaces) of s.
RECURSIVE CountWords(_)
CountWords(pieces) ==
  IF pieces = <<>> THEN 0
  ELSE (IF Head(pieces) # <<>> THEN 1 ELSE 0) + CountWords(Tail(pieces))

\* C30: the seed carried from an emitted chunk into the next buffer holds
\* at most floor(overlap / 10) words of that chunk, for every overlap >= 0;
\* with an overlap below 10 it holds none.
C30_SeedWithinOverlapWords ==
  ResultOf(splitCall) =>
    \A k \in 1..Len(splitCall.seeds) :
       CountWords(SplitSpace(splitCall.seeds[k].seed))
          <= splitCall.overlap \div 10

\* C29: the stats passed to onBatchComplete describe the run that has just
\* finished: completed and failed count the uploads of the run that
\* succeeded and failed, and together they count the files that were
\* pending when the run started.
C29_StatsDescribeRun ==
  uploader.stats # <<>> =>
    /\ uploader.stats[1].completed = Cardinality(uploader.succeeded)
    /\ uploader.stats[1].failed = Cardinality(uploader.failed)
    /\ uploader.stats[1].completed + uploader.stats[1].failed
          = Len(uploader.pendingFiles)

\* Both callers of initialize have settled, and the provider failed no call
\* of theirs for a reason of its own (an outage, an index that never became
\* ready).
BothSettledNoOutage ==
  \A c \in 1..2 :
    /\ callers[c].pc \in {"done", "failed"}
    /\ callers[c].error \notin {"listIndexes failed", "createIndex failed",
                                "Pinecone index failed to become ready"}

\* C28: when two uploads call initialize together while the index does not
\* exist, both calls complete without error and exactly one index is
\* created.
C28_ConcurrentInitialize ==
  (callers # NoCallers /\ ~IndexExists(pinecone.before)
     /\ BothSettledNoOutage) =>
    /\ \A c \in 1..2 : callers[c].pc = "done"
    /\ Cardinality({c \in 1..2 : callers[c].created}) = 1
    /\ Cardinality({index \in pinecone.indexes : index.name = indexName}) = 1

====
